---- MODULE Spec2Model ----
(***************************************************************************)
(* A model of the draftmaid DSL engine (src/lib/engine.js): the DSLParser  *)
(* session (vars, boards, errors, reg, varCount), its line loop, parseVar, *)
(* parseBoard, eval, prop and math.                                        *)
(*                                                                         *)
(* Text is modelled at the character level: a JavaScript string is a TLA+  *)
(* string, indexed with SubSeq.   A number is held as an integer count of   *)
(* thousandths ("milli"), which is exact for every value math() returns,   *)
(* since math() rounds to three decimals; intermediate arithmetic is done  *)
(* on exact fractions <<n, d>>.  IEEE-754 rounding error is not modelled.  *)
(* The Czech messages are written without diacritics.                      *)
(***************************************************************************)
EXTENDS Integers, Sequences, FiniteSets, TLC

VARIABLES text, lines, i, pc, vars, boards, errors, reg, varCount, result, listed

vars_ == <<text, lines, i, pc, vars, boards, errors, reg, varCount, result, listed>>

(***************************************************************************)
(* JavaScript values that are not numbers                                  *)
(***************************************************************************)
\* null: a nullable field holds Null or <<v>>
Null == <<>>

Some(v) == <<v>>

(***************************************************************************)
(* Characters and strings                                                  *)
(***************************************************************************)
\* the characters of s from 1-based position a to b, those that exist
Sub(s, a, b) ==
  SubSeq(s, IF a < 1 THEN 1 ELSE a, IF b > Len(s) THEN Len(s) ELSE b)

\* the character at 1-based position k, "" beyond the ends
Ch(s, k) == Sub(s, k, k)

\* String.prototype.slice(a, b) and slice(a), 0-based, for 0 <= a
Slice(s, a, b) == Sub(s, a + 1, b)

SliceFrom(s, a) == Sub(s, a + 1, Len(s))

Digits == {"0", "1", "2", "3", "4", "5", "6", "7", "8", "9"}

LowerLetters == "abcdefghijklmnopqrstuvwxyz"

UpperLetters == "ABCDEFGHIJKLMNOPQRSTUVWXYZ"

LowerSet == {Ch(LowerLetters, k) : k \in 1..26}

UpperSet == {Ch(UpperLetters, k) : k \in 1..26}

\* \s of a regular expression and the characters trim() removes, within the
\* model's alphabet
SpaceSet == {" ", "\t"}

\* [a-zA-Z_]
IdentStartSet == LowerSet \cup UpperSet \cup {"_"}

\* \w
WordSet == IdentStartSet \cup Digits

\* [a-zA-Z0-9]
AlnumSet == LowerSet \cup UpperSet \cup Digits

\* [0-9a-fA-F]
HexSet == Digits \cup {"a", "b", "c", "d", "e", "f", "A", "B", "C", "D", "E", "F"}

IsSpace(c) == c \in SpaceSet

IsDigit(c) == c \in Digits

IsWord(c) == c \in WordSet

LowerCh(c) ==
  IF c \in UpperSet
    THEN Ch(LowerLetters, CHOOSE k \in 1..26 : Ch(UpperLetters, k) = c)
    ELSE c

\* String.prototype.toLowerCase, one half of the string after the other
RECURSIVE ToLowerCase(_)
ToLowerCase(s) ==
  IF Len(s) <= 1 THEN LowerCh(s)
  ELSE ToLowerCase(Sub(s, 1, Len(s) \div 2))
       \o ToLowerCase(Sub(s, Len(s) \div 2 + 1, Len(s)))

StartsWith(s, p) == Len(s) >= Len(p) /\ Sub(s, 1, Len(p)) = p

\* the least and the greatest element of a set of integers, or the value
\* none when the set is empty
Least(S, none) == IF S = {} THEN none ELSE CHOOSE x \in S : \A y \in S : x <= y

Greatest(S, none) == IF S = {} THEN none ELSE CHOOSE x \in S : \A y \in S : x >= y

\* the length of the longest run of characters of the class cls (a set of
\* characters) that starts at 1-based position k of s, and of the longest
\* run that ends there
Run(s, k, cls) ==
  Least({j \in k..Len(s) + 1 : Ch(s, j) \notin cls}, k) - k

RunBack(s, k, cls) ==
  k - Greatest({j \in 0..k : Ch(s, j) \notin cls}, k)

TrimStart(s) == SliceFrom(s, Run(s, 1, SpaceSet))

TrimEnd(s) == Sub(s, 1, Len(s) - RunBack(s, Len(s), SpaceSet))

\* String.prototype.trim
Trim(s) == TrimEnd(TrimStart(s))

\* the 0-based index of the first occurrence of the one-character string c
\* at or after 0-based index from, or -1
IndexOfCh(s, c, from) == Least({j \in from..Len(s) - 1 : Ch(s, j + 1) = c}, -1)

\* String.prototype.includes
Includes(s, p) == \E k \in 1..Len(s) - Len(p) + 1 : Sub(s, k, k + Len(p) - 1) = p

\* text.split('\n')
RECURSIVE SplitLines(_)
SplitLines(s) ==
  LET n == IndexOfCh(s, "\n", 0)
  IN  IF n = -1 THEN <<s>>
      ELSE <<Slice(s, 0, n)>> \o SplitLines(SliceFrom(s, n + 1))

(***************************************************************************)
(* Numbers.  A fraction is <<n, d>> with d > 0 in lowest terms; d = 0     *)
(* stands for the values that are not finite: <<1, 0>> is Infinity,        *)
(* <<-1, 0>> is -Infinity and <<0, 0>> is NaN.  The sign of zero is not    *)
(* modelled.                                                               *)
(***************************************************************************)
Abs(n) == IF n < 0 THEN -n ELSE n

Sign(n) == IF n < 0 THEN -1 ELSE IF n > 0 THEN 1 ELSE 0

RECURSIVE GCD(_, _)
GCD(a, b) == IF b = 0 THEN a ELSE GCD(b, a % b)

NaN == <<0, 0>>

Inf(sgn) == <<sgn, 0>>

IsFiniteF(f) == f[2] # 0

IsNaNF(f) == f = NaN

Frac(n, d) ==
  IF d = 0 THEN <<Sign(n), 0>>
  ELSE LET g == GCD(Abs(n), Abs(d))
           sg == IF d < 0 THEN -1 ELSE 1
       IN  <<sg * (n \div g), sg * (d \div g)>>

FInt(n) == <<n, 1>>

FNeg(a) == <<-a[1], a[2]>>

FAdd(a, b) ==
  IF IsNaNF(a) \/ IsNaNF(b) THEN NaN
  ELSE IF ~IsFiniteF(a) /\ ~IsFiniteF(b) THEN (IF a = b THEN a ELSE NaN)
  ELSE IF ~IsFiniteF(a) THEN a
  ELSE IF ~IsFiniteF(b) THEN b
  ELSE Frac(a[1] * b[2] + b[1] * a[2], a[2] * b[2])

FSub(a, b) == FAdd(a, FNeg(b))

FMul(a, b) ==
  IF IsNaNF(a) \/ IsNaNF(b) THEN NaN
  ELSE IF ~IsFiniteF(a) \/ ~IsFiniteF(b)
    THEN (IF a[1] = 0 \/ b[1] = 0 THEN NaN ELSE Inf(Sign(a[1]) * Sign(b[1])))
  ELSE Frac(a[1] * b[1], a[2] * b[2])

FDiv(a, b) ==
  IF IsNaNF(a) \/ IsNaNF(b) THEN NaN
  ELSE IF ~IsFiniteF(b) THEN (IF IsFiniteF(a) THEN FInt(0) ELSE NaN)
  ELSE IF ~IsFiniteF(a) THEN Inf(a[1] * (IF b[1] < 0 THEN -1 ELSE 1))
  ELSE IF b[1] = 0 THEN (IF a[1] = 0 THEN NaN ELSE Inf(Sign(a[1])))
  ELSE Frac(a[1] * b[2], a[2] * b[1])

RECURSIVE IntPow(_, _)
IntPow(b, e) == IF e = 0 THEN 1 ELSE b * IntPow(b, e - 1)

\* a ** b for an integer exponent b; NaN ** 0 is 1
FPow(a, b) ==
  IF IsNaNF(b) THEN NaN
  ELSE IF b[1] = 0 /\ IsFiniteF(b) THEN FInt(1)
  ELSE IF IsNaNF(a) THEN NaN
  ELSE IF ~IsFiniteF(b)
    THEN (IF Abs(a[1]) = a[2] THEN NaN
          ELSE IF (Abs(a[1]) > a[2] \/ ~IsFiniteF(a)) = (b[1] > 0) THEN Inf(1)
          ELSE FInt(0))
  ELSE IF ~IsFiniteF(a)
    THEN (IF b[1] < 0 THEN FInt(0)
          ELSE IF a[1] < 0 /\ b[2] = 1 /\ b[1] % 2 = 1 THEN Inf(-1) ELSE Inf(1))
  ELSE IF b[2] # 1 THEN CHOOSE v \in {} : TRUE  \* a root: not a fraction
  ELSE IF b[1] > 0 THEN Frac(IntPow(a[1], b[1]), IntPow(a[2], b[1]))
  ELSE Frac(IntPow(a[2], -b[1]), IntPow(a[1], -b[1]))

\* Math.round(r * 1000), the count of thousandths nearest to the fraction r
\* (halves go up)
RoundMilli(f) == (2000 * f[1] + f[2]) \div (2 * f[2])

\* the fraction a count of thousandths stands for
MilliF(m) == Frac(m, 1000)

RECURSIVE StripZeros(_)
StripZeros(s) ==
  IF s # "" /\ Ch(s, Len(s)) = "0" THEN StripZeros(Sub(s, 1, Len(s) - 1)) ELSE s

RECURSIVE PadLeft(_, _)
PadLeft(s, n) == IF Len(s) >= n THEN s ELSE PadLeft("0" \o s, n)

\* the number of decimals needed to write the fraction f, whose denominator
\* divides a power of ten
RECURSIVE Decimals(_)
Decimals(f) == IF f[2] = 1 THEN 0 ELSE 1 + Decimals(Frac(f[1] * 10, f[2]))

\* String(v) of a finite number v that has a finite decimal expansion and
\* needs no exponent; String of the values that are not finite
NumberToString(f) ==
  IF f = NaN THEN "NaN"
  ELSE IF f = Inf(1) THEN "Infinity"
  ELSE IF f = Inf(-1) THEN "-Infinity"
  ELSE LET k == Decimals(f)
           scaled == (Abs(f[1]) * IntPow(10, k)) \div f[2]
           ip == scaled \div IntPow(10, k)
           fp == scaled % IntPow(10, k)
       IN  (IF f[1] < 0 THEN "-" ELSE "") \o ToString(ip)
           \o (IF k = 0 THEN "" ELSE "." \o PadLeft(ToString(fp), k))

MilliToString(m) == NumberToString(MilliF(m))

\* the integer nearest to the square root of n >= 0 (Math.sqrt, then
\* Math.round): the r with r*r - r < n <= r*r + r, by bisection
RECURSIVE RoundSqrtIn(_, _, _)
RoundSqrtIn(n, lo, hi) ==
  IF lo >= hi THEN lo
  ELSE LET mid == (lo + hi + 1) \div 2
       IN  IF mid * mid - mid < n
             THEN RoundSqrtIn(n, mid, hi)
             ELSE RoundSqrtIn(n, lo, mid - 1)

RoundSqrt(n) == RoundSqrtIn(n, 0, 46340)

IsSquare(n) == LET r == RoundSqrt(n) IN r * r = n

(***************************************************************************)
(* math(): the restricted arithmetic.  The source hands the string to the  *)
(* JavaScript evaluator as `"use strict";return (e)`; over the characters  *)
(* the guard admits, that language is: decimal literals, unary and binary  *)
(* + and -, * and /, **, parentheses, block comments, and regular          *)
(* expression literals (whose value is no number).  A line comment         *)
(* swallows the closing parenthesis, ++ and -- have no variable to act on, *)
(* and a parenthesis after an operand is a call of a number: all fail.     *)
(* A parse yields [ok, v, k, pre]: the value v, the 1-based position k     *)
(* after it, and whether the operand began with a unary sign.              *)
(***************************************************************************)
MathCharSet == Digits \cup SpaceSet \cup {"+", "-", "*", "/", "(", ")", "."}

PFail == [ok |-> FALSE, v |-> NaN, k |-> 0, pre |-> FALSE]

\* the 1-based position after the */ that closes a comment whose body
\* begins at k, or 0
CommentEnd(s, k) == Least({j \in k..Len(s) - 1 : Sub(s, j, j + 1) = "*/"}, -2) + 2

\* the position of the next token at or after k0: white space and block
\* comments are skipped; 0 when a block comment is not closed or a line
\* comment begins
RECURSIVE SkipBlanks(_, _)
SkipComment(s, e) == IF e = 0 THEN 0 ELSE SkipBlanks(s, e)

SkipBlanks(s, k0) ==
  LET k == k0 + Run(s, k0, SpaceSet)
  IN  CASE Sub(s, k, k + 1) = "//" -> 0
        [] Sub(s, k, k + 1) = "/*" -> SkipComment(s, CommentEnd(s, k + 2))
        [] OTHER -> k

\* an operand of value val that ends before pos: k is the position of the
\* token that follows it
POk(s, val, pos) ==
  LET j == SkipBlanks(s, pos)
  IN  IF j = 0 THEN PFail ELSE [ok |-> TRUE, v |-> val, k |-> j, pre |-> FALSE]

RECURSIVE DigitsToInt(_)
DigitsToInt(s) ==
  IF s = "" THEN 0
  ELSE 10 * DigitsToInt(Sub(s, 1, Len(s) - 1))
       + (CHOOSE n \in 0..9 : ToString(n) = Ch(s, Len(s)))

\* the numbers ni and nf of digits before and after the point of the
\* decimal literal at k, and its length
DigitRuns(s, k) ==
  LET ni == Run(s, k, Digits)
  IN  IF Ch(s, k + ni) = "."
        THEN [ni |-> ni, nf |-> Run(s, k + ni + 1, Digits),
              len |-> ni + 1 + Run(s, k + ni + 1, Digits)]
        ELSE [ni |-> ni, nf |-> 0, len |-> ni]

\* a decimal literal at k: 12, 1.5, 5., .5; a leading zero before another
\* digit is an octal literal, which strict mode refuses
PNumberOf(s, k, d) ==
  CASE d.ni = 0 /\ d.nf = 0 -> PFail
    [] d.ni > 1 /\ Ch(s, k) = "0" -> PFail
    [] OTHER ->
         POk(s, Frac(DigitsToInt(Sub(s, k, k + d.ni - 1)) * IntPow(10, d.nf)
                       + DigitsToInt(Sub(s, k + d.ni + 1, k + d.ni + d.nf)),
                     IntPow(10, d.nf)),
             k + d.len)

PNumber(s, k) == PNumberOf(s, k, DigitRuns(s, k))

\* whether the body of a regular expression literal is a pattern: every *
\* and + follows something it can repeat, and the parentheses pair up
RECURSIVE PatternOk(_, _, _, _)
PatternOk(s, k, depth, atom) ==
  IF k > Len(s) THEN depth = 0
  ELSE LET c == Ch(s, k)
       IN  IF c = "(" THEN PatternOk(s, k + 1, depth + 1, FALSE)
           ELSE IF c = ")" THEN depth > 0 /\ PatternOk(s, k + 1, depth - 1, TRUE)
           ELSE IF c \in {"*", "+"} THEN atom /\ PatternOk(s, k + 1, depth, FALSE)
           ELSE PatternOk(s, k + 1, depth, TRUE)

\* a regular expression literal at k (s[k] = "/"): an object, NaN as a number
PRegExp(s, k) ==
  LET close == IndexOfCh(s, "/", k)
  IN  CASE close = -1 -> PFail
        [] ~PatternOk(Sub(s, k + 1, close), 1, 0, FALSE) -> PFail
        [] IsDigit(Ch(s, close + 2)) -> PFail        \* a digit is no flag
        [] OTHER -> POk(s, NaN, close + 2)

RECURSIVE PExpr(_, _)
RECURSIVE PExp(_, _)
RECURSIVE PUnary(_, _)

\* ( e ): the closing parenthesis is the token after e
PParen(s, e) == IF e.ok /\ Ch(s, e.k) = ")" THEN POk(s, e.v, e.k + 1) ELSE PFail

\* the operand at the token position k
PPrimary(s, k) ==
  CASE IsDigit(Ch(s, k)) \/ Ch(s, k) = "." -> PNumber(s, k)
    [] Ch(s, k) = "/" -> PRegExp(s, k)
    [] Ch(s, k) = "(" -> PParen(s, PExpr(s, k + 1))
    [] OTHER -> PFail

\* an operand p with what may follow it: ( calls it, ++ and -- update it
PPostfix(s, p) ==
  IF p.ok /\ (Ch(s, p.k) = "(" \/ Sub(s, p.k, p.k + 1) \in {"++", "--"})
    THEN PFail ELSE p

\* the sign c applied to the operand u
PSigned(c, u) ==
  IF u.ok THEN [u EXCEPT !.v = IF c = "-" THEN FNeg(u.v) ELSE u.v, !.pre = TRUE]
  ELSE PFail

PUnaryAt(s, k) ==
  CASE k = 0 -> PFail
    [] Ch(s, k) \in {"+", "-"} /\ Ch(s, k + 1) = Ch(s, k) -> PFail
    [] Ch(s, k) \in {"+", "-"} -> PSigned(Ch(s, k), PUnary(s, k + 1))
    [] OTHER -> PPostfix(s, PPrimary(s, k))

PUnary(s, k0) == PUnaryAt(s, SkipBlanks(s, k0))

PPower(u, r) ==
  IF r.ok THEN [r EXCEPT !.v = FPow(u.v, r.v), !.pre = FALSE] ELSE PFail

\* a ** b associates to the right and refuses a signed base
PExpOf(s, u) ==
  CASE ~u.ok -> PFail
    [] Sub(s, u.k, u.k + 1) = "**" /\ u.pre -> PFail
    [] Sub(s, u.k, u.k + 1) = "**" -> PPower(u, PExp(s, u.k + 2))
    [] OTHER -> u

PExp(s, k0) == PExpOf(s, PUnary(s, k0))

\* acc * r, acc / r
PMulStep(acc, c, r) ==
  IF r.ok THEN [r EXCEPT !.v = IF c = "*" THEN FMul(acc.v, r.v)
                               ELSE FDiv(acc.v, r.v)]
  ELSE PFail

RECURSIVE PMulRest(_, _)
PMulRest(s, acc) ==
  CASE ~acc.ok -> PFail
    [] Ch(s, acc.k) \in {"*", "/"} ->
         PMulRest(s, PMulStep(acc, Ch(s, acc.k), PExp(s, acc.k + 1)))
    [] OTHER -> acc

PMul(s, k0) == PMulRest(s, PExp(s, k0))

\* acc + r, acc - r
PAddStep(acc, c, r) ==
  IF r.ok THEN [r EXCEPT !.v = IF c = "+" THEN FAdd(acc.v, r.v)
                               ELSE FSub(acc.v, r.v)]
  ELSE PFail

RECURSIVE PAddRest(_, _)
PAddRest(s, acc) ==
  CASE ~acc.ok -> PFail
    [] Ch(s, acc.k) \in {"+", "-"} /\ Ch(s, acc.k + 1) = Ch(s, acc.k) -> PFail
    [] Ch(s, acc.k) \in {"+", "-"} ->
         PAddRest(s, PAddStep(acc, Ch(s, acc.k), PMul(s, acc.k + 1)))
    [] OTHER -> acc

PExpr(s, k0) == PAddRest(s, PMul(s, k0))

\* an outcome of eval, math and prop: a value, or the message thrown
Ok(val) == [ok |-> TRUE, v |-> val, msg |-> ""]

Throw(m) == [ok |-> FALSE, v |-> 0, msg |-> m]

AllIn(s, cls) == Run(s, 1, cls) = Len(s)

\* the number r when the whole of e was one expression, or the Error for
\* a syntax error and for a value that is not finite or not a number
MathValue(e, r) ==
  IF r.ok /\ r.k = Len(e) + 1 /\ IsFiniteF(r.v) THEN Ok(RoundMilli(r.v))
  ELSE Throw("Chyba vyrazu \"" \o e \o "\"")

MathOf(e) ==
  IF e = "" \/ ~AllIn(e, MathCharSet)
    THEN Throw("Neplatny vyraz: \"" \o e \o "\" (povoleny: cisla, +,-,*,/,()")
    ELSE MathValue(e, PExpr(e, 1))

\* math(expr) of a string: the value in thousandths, or the Error thrown
Math(expr) == MathOf(Trim(expr))

(***************************************************************************)
(* The keyword locator and the coordinate splitter                         *)
(***************************************************************************)
\* the bracket depth at the end of s: depth++ for { and (, depth-- for } and )
\* a findKeyword that does not count brackets
DepthFlat(s) == 0

Depth(s) ==
  Cardinality({j \in 1..Len(s) : Ch(s, j) \in {"{", "("}})
  - Cardinality({j \in 1..Len(s) : Ch(s, j) \in {"}", ")"}})

\* whether the regular expression \bkw\b (flag i) matches at 0-based index p
KeywordAt(str, kw, p) ==
  /\ ToLowerCase(Slice(str, p, p + Len(kw))) = ToLowerCase(kw)
  /\ ~IsWord(Ch(str, p))
  /\ ~IsWord(Ch(str, p + Len(kw) + 1))

\* findKeyword(str, kw): the 0-based index of the first whole-word match of
\* kw that has bracket depth 0 before it, or -1
findKeyword(str, kw) ==
  Least({p \in 0..Len(str) - Len(kw) :
           KeywordAt(str, kw, p) /\ Depth(Slice(str, 0, p)) = 0}, -1)

\* if (pos !== -1 && (best === -1 || pos < best)) { best = pos; bestKw = kw; }
Earliest(best, pos, kw) ==
  IF pos # -1 /\ (best.pos = -1 \/ pos < best.pos)
    THEN [pos |-> pos, keyword |-> Some(kw)]
    ELSE best

RECURSIVE FindNextFrom(_, _, _, _)
FindNextFrom(str, keywords, n, best) ==
  IF n > Len(keywords) THEN best
  ELSE FindNextFrom(str, keywords, n + 1,
                    Earliest(best, findKeyword(str, keywords[n]), keywords[n]))

\* findNextKeyword(str, keywords): the earliest keyword of the list
findNextKeyword(str, keywords) ==
  FindNextFrom(str, keywords, 1, [pos |-> -1, keyword |-> Null])

\* the parts of str from 1-based position k on that the positions of the
\* set cuts separate
RECURSIVE PartsFrom(_, _, _)
PartsAt(str, k, cuts, c) ==
  IF c = 0 THEN <<Sub(str, k, Len(str))>>
  ELSE <<Sub(str, k, c - 1)>> \o PartsFrom(str, c + 1, cuts)

PartsFrom(str, k, cuts) ==
  PartsAt(str, k, cuts, Least({c \in cuts : c >= k}, 0))

\* splitCoords(str): the parts between the commas at bracket depth 0
splitCoords(str) ==
  PartsFrom(str, 1, {k \in 1..Len(str) :
                       Ch(str, k) = "," /\ Depth(Sub(str, 1, k - 1)) = 0})

(***************************************************************************)
(* Objects.  vars and reg are plain objects ({}): a lookup finds an own    *)
(* property or, failing that, a property inherited from Object.prototype.  *)
(* A map of the model is a function whose domain is the own keys.          *)
(***************************************************************************)
EmptyObject == [n \in {} |-> 0]

ObjectPrototypeNames ==
  {"constructor", "toString", "toLocaleString", "valueOf", "hasOwnProperty",
   "isPrototypeOf", "propertyIsEnumerable", "__proto__", "__defineGetter__",
   "__defineSetter__", "__lookupGetter__", "__lookupSetter__"}

\* obj[key] is not undefined
Has(obj, key) == key \in DOMAIN obj \/ key \in ObjectPrototypeNames

HasOwn(obj, key) == key \in DOMAIN obj

\* obj[key] = val: the __proto__ setter ignores a value that is no object
Put(obj, key, val) ==
  IF key = "__proto__" THEN obj
  ELSE [n \in DOMAIN obj \cup {key} |-> IF n = key THEN val ELSE obj[n]]

\* String(v) of an inherited property: a built-in function, or, for
\* __proto__, Object.prototype itself
InheritedToString(key) ==
  IF key = "__proto__" THEN "[object Object]"
  ELSE "function " \o (IF key = "constructor" THEN "Object" ELSE key)
       \o "() { [native code] }"

\* a value the model's numbers do not hold: evaluating it is an error
NotModelled == CHOOSE v \in {} : TRUE

(***************************************************************************)
(* Angles.  atan2(dy, dx) depends on the direction of (dx, dy) only, and   *)
(* the model holds it as that direction in lowest terms; the angle 0 is    *)
(* the direction (1, 0), which atan2 also gives for dx = dy = 0.           *)
(***************************************************************************)
ZeroAngle == [dy |-> 0, dx |-> 1]

Atan2Deg(dy, dx) ==
  IF dy = 0 /\ dx >= 0 THEN ZeroAngle
  ELSE LET g == GCD(Abs(dy), Abs(dx)) IN [dy |-> dy \div g, dx |-> dx \div g]

\* the angle in degrees, for the directions whose angle the tests fix
AngleDegrees(a) ==
  IF a = ZeroAngle THEN FInt(0)
  ELSE IF a.dx = 0 THEN FInt(90 * a.dy)
  ELSE IF a.dx = 1 /\ Abs(a.dy) = 1 THEN FInt(45 * a.dy)
  ELSE NotModelled

(***************************************************************************)
(* prop(b, p, id): the outcome is the text String(value) that eval puts in *)
(* place of {id.p}, or the Error thrown                                    *)
(***************************************************************************)
OrZero(nullable) == IF nullable = Null THEN 0 ELSE nullable[1]

UnknownProperty(p, id) == Throw("Neznama vlastnost ." \o p \o " na [" \o id \o "]")

\* the number prop returns for a board, as a fraction
PropValue(b, p) ==
  LET x == OrZero(b.x)
      y == OrZero(b.y)
      z == OrZero(b.z)
  IN  CASE p = "x" -> MilliF(x)
        [] p = "y" -> MilliF(y)
        [] p = "z" -> MilliF(z)
        [] p = "w" -> MilliF(b.w)
        [] p = "h" -> MilliF(b.h)
        [] p = "d" -> MilliF(b.d)
        [] p = "back" -> MilliF(z + b.d)
        [] p = "angle" -> AngleDegrees(b.angle)
        [] p \in {"right", "top", "cx", "cy", "x2", "y2"} ->
             IF b.angle # ZeroAngle
               THEN NotModelled    \* cosines and sines of the rotated box
               ELSE CASE p = "right" -> MilliF(x + b.w)
                      [] p = "top" -> MilliF(y + b.h)
                      [] p = "cx" -> FAdd(MilliF(x), FDiv(MilliF(b.w), FInt(2)))
                      [] p = "cy" -> FAdd(MilliF(y), FDiv(MilliF(b.h), FInt(2)))
                      [] p = "x2" -> MilliF(x + b.w)
                      [] p = "y2" -> MilliF(y)

PropNames ==
  {"x", "y", "z", "w", "h", "d", "back", "angle", "right", "top", "cx", "cy", "x2", "y2"}

\* a prop that returns 0 for a name it does not know
PropAny(b, p, id) ==
  IF p \in PropNames
    THEN [ok |-> TRUE, v |-> NumberToString(PropValue(b, p)), msg |-> ""]
    ELSE [ok |-> TRUE, v |-> "0", msg |-> ""]

Prop(b, p, id) ==
  IF p \in PropNames
    THEN [ok |-> TRUE, v |-> NumberToString(PropValue(b, p)), msg |-> ""]
    ELSE UnknownProperty(p, id)

\* prop of a receiver that is no board but an inherited property of reg:
\* it has none of the fields, so x, y, z read as 0 and w, h, d as undefined
PropInherited(p, id) ==
  IF p \in {"x", "y", "z", "angle", "y2"} THEN [ok |-> TRUE, v |-> "0", msg |-> ""]
  ELSE IF p \in {"w", "h", "d"} THEN [ok |-> TRUE, v |-> "undefined", msg |-> ""]
  ELSE IF p \in PropNames THEN [ok |-> TRUE, v |-> "NaN", msg |-> ""]
  ELSE UnknownProperty(p, id)

(***************************************************************************)
(* eval(expr): $var, then {id.prop}, then LEN(..), then math               *)
(***************************************************************************)
\* the text t put before the rest of a replacement, unless that threw
Prepend(t, r) == IF r.ok THEN [r EXCEPT !.v = t \o r.v] ELSE r

\* String(this.vars[n])
VarText(vs, n) ==
  IF HasOwn(vs, n) THEN MilliToString(vs[n]) ELSE InheritedToString(n)

RECURSIVE ReplaceVars(_, _, _)
\* the reference $n at k
ReplaceVarNamed(e, k, vs, n) ==
  IF ~Has(vs, n) THEN Throw("Neznama promenna $" \o n)
  ELSE Prepend(VarText(vs, n), ReplaceVars(e, k + 1 + Len(n), vs))

\* the next reference is at p; none when p = 0
ReplaceVarAt(e, k, vs, p) ==
  IF p = 0 THEN Ok(Sub(e, k, Len(e)))
  ELSE Prepend(Sub(e, k, p - 1),
               ReplaceVarNamed(e, p, vs, Sub(e, p + 1, p + Run(e, p + 1, WordSet))))

\* step 1: expr.replace(/\$([a-zA-Z_]\w*)/g, ...), from 1-based position k on
ReplaceVars(e, k, vs) ==
  ReplaceVarAt(e, k, vs,
               Least({p \in k..Len(e) :
                        Ch(e, p) = "$" /\ Ch(e, p + 1) \in IdentStartSet}, 0))

\* a match of /\{([a-zA-Z_]\w*)\.([a-zA-Z0-9]+)\}/ at k whose groups have
\* nid and np characters; len = 0 when there is none
PropRefOf(e, k, nid, np) ==
  IF Ch(e, k) = "{" /\ nid > 0 /\ np > 0 /\ Ch(e, k + 2 + nid + np) = "}"
    THEN [len |-> nid + np + 3, id |-> Sub(e, k + 1, k + nid),
          prop |-> Sub(e, k + 2 + nid, k + 1 + nid + np)]
    ELSE [len |-> 0, id |-> "", prop |-> ""]

PropRefId(e, k, nid) ==
  PropRefOf(e, k, nid,
            IF Ch(e, k + 1 + nid) = "." THEN Run(e, k + 2 + nid, AlnumSet) ELSE 0)

PropRefAt(e, k) ==
  PropRefId(e, k, IF Ch(e, k + 1) \in IdentStartSet THEN Run(e, k + 1, WordSet)
                  ELSE 0)

\* this.prop(this.reg[id], prop, id), as text
PropText(rg, id, p) ==
  IF HasOwn(rg, id) THEN Prop(rg[id], p, id) ELSE PropInherited(p, id)

RECURSIVE ReplaceProps(_, _, _)
\* the text t of a reference, then the rest from k
PropThen(t, e, k, rg) ==
  IF t.ok THEN Prepend(t.v, ReplaceProps(e, k, rg)) ELSE t

\* const b = this.reg[id]; if (!b) throw ...; return this.prop(b, prop, id)
ReplacePropRef(e, p, rg, m) ==
  IF ~Has(rg, m.id) THEN Throw("Nezname ID [" \o m.id \o "]")
  ELSE PropThen(PropText(rg, m.id, m.prop), e, p + m.len, rg)

\* the next reference is at p; none when p = 0
ReplacePropAt(e, k, rg, p) ==
  IF p = 0 THEN Ok(Sub(e, k, Len(e)))
  ELSE Prepend(Sub(e, k, p - 1), ReplacePropRef(e, p, rg, PropRefAt(e, p)))

\* step 2: e.replace(/\{([a-zA-Z_]\w*)\.([a-zA-Z0-9]+)\}/g, ...), from k on
ReplaceProps(e, k, rg) ==
  ReplacePropAt(e, k, rg, Least({p \in k..Len(e) : PropRefAt(e, p).len > 0}, 0))

\* the next comma after the comma at 0-based index c
CommaAfter(e, c) == IF c = -1 THEN -1 ELSE IndexOfCh(e, ",", c + 1)

\* a match of /LEN\(([^,]+),([^,]+),([^,]+),([^)]+)\)/i at k: the four
\* arguments end at the first three commas c1, c2, c3 and at the first
\* closing parenthesis c4 after them
LenCall4(e, k, c1, c2, c3, c4) ==
  IF /\ ToLowerCase(Sub(e, k, k + 3)) = "len("
     /\ c4 # -1 /\ c1 > k + 3 /\ c2 > c1 + 1 /\ c3 > c2 + 1 /\ c4 > c3 + 1
    THEN [len |-> c4 + 2 - k,
          args |-> <<Slice(e, k + 3, c1), Slice(e, c1 + 1, c2),
                     Slice(e, c2 + 1, c3), Slice(e, c3 + 1, c4)>>]
    ELSE [len |-> 0, args |-> <<>>]

LenCall3(e, k, c1, c2, c3) ==
  LenCall4(e, k, c1, c2, c3, IF c3 = -1 THEN -1 ELSE IndexOfCh(e, ")", c3 + 1))

LenCall2(e, k, c1, c2) == LenCall3(e, k, c1, c2, CommaAfter(e, c2))

LenCall1(e, k, c1) == LenCall2(e, k, c1, CommaAfter(e, c1))

LenCallAt(e, k) == LenCall1(e, k, IndexOfCh(e, ",", k + 3))

\* String(Math.sqrt((x2-x1)**2 + (y2-y1)**2)); a distance that is no
\* fraction is carried at the nearest thousandth
Distance(x1, y1, x2, y2) ==
  RoundSqrt((x2 - x1) * (x2 - x1) + (y2 - y1) * (y2 - y1))

\* the values of a list of outcomes, or the first of them that threw
FirstThrow(rs) ==
  LET bad == Least({n \in 1..Len(rs) : ~rs[n].ok}, 0)
  IN  IF bad = 0 THEN Ok([n \in 1..Len(rs) |-> rs[n].v]) ELSE rs[bad]

\* this.math of each argument in turn
MathAll(args) == FirstThrow([n \in 1..Len(args) |-> Math(args[n])])

LenOf(r) ==
  IF r.ok THEN Ok(MilliToString(Distance(r.v[1], r.v[2], r.v[3], r.v[4]))) ELSE r

LenValue(args) == LenOf(MathAll(args))

RECURSIVE ReplaceLen(_, _)
LenThen(t, e, k) == IF t.ok THEN Prepend(t.v, ReplaceLen(e, k)) ELSE t

ReplaceLenCall(e, p, m) == LenThen(LenValue(m.args), e, p + m.len)

\* the next call is at p; none when p = 0
ReplaceLenAt(e, k, p) ==
  IF p = 0 THEN Ok(Sub(e, k, Len(e)))
  ELSE Prepend(Sub(e, k, p - 1), ReplaceLenCall(e, p, LenCallAt(e, p)))

\* step 3: e.replace(/LEN\(...\)/gi, ...), from 1-based position k on
ReplaceLen(e, k) ==
  ReplaceLenAt(e, k, Least({p \in k..Len(e) : LenCallAt(e, p).len > 0}, 0))

\* steps 2, 3 and 4, each on the outcome of the step before it
EvalProps(e1, rg) == IF e1.ok THEN ReplaceProps(e1.v, 1, rg) ELSE e1

EvalLen(e2) == IF e2.ok THEN ReplaceLen(e2.v, 1) ELSE e2

EvalMath(e3) == IF e3.ok THEN Math(e3.v) ELSE e3

\* eval(expr) with the session's vars and reg: thousandths, or the Error
Eval(expr, vs, rg) == EvalMath(EvalLen(EvalProps(ReplaceVars(expr, 1, vs), rg)))

\* this.eval(e.trim()) of each expression in turn, up to the first that
\* throws
EvalAll(exprs, vs, rg) ==
  FirstThrow([n \in 1..Len(exprs) |-> Eval(Trim(exprs[n]), vs, rg)])

(***************************************************************************)
(* parseVar                                                                *)
(***************************************************************************)
\* the least n >= 1 such that what follows the first n characters of r is
\* empty or matches \s*#.* : the end of the lazy group (.+?)
LazyEnd(r) ==
  Least({n \in 1..Len(r) - 1 : Ch(r, n + 1 + Run(r, n + 1, SpaceSet)) = "#"},
        Len(r))

\* the match whose name has nn characters, whose = is expected at eq and
\* whose expression begins after the first from characters
MatchVarAt(line, nn, eq, from) ==
  LET r == SliceFrom(line, from)
  IN  IF nn > 0 /\ Ch(line, eq) = "=" /\ from >= eq /\ r # ""
        THEN [ok |-> TRUE, name |-> Sub(line, 2, 1 + nn),
              expr |-> Sub(r, 1, LazyEnd(r))]
        ELSE [ok |-> FALSE, name |-> "", expr |-> ""]

\* \s* is greedy and gives one character back when nothing follows it
MatchVarEq(line, nn, eq) ==
  LET ws == Run(line, eq + 1, SpaceSet)
  IN  MatchVarAt(line, nn, eq,
                 IF eq + ws < Len(line) THEN eq + ws ELSE eq + ws - 1)

MatchVarName(line, nn) ==
  MatchVarEq(line, nn, 2 + nn + Run(line, 2 + nn, SpaceSet))

\* line.match(/^\$([a-zA-Z_]\w*)\s*=\s*(.+?)(?:\s*#.*)?$/): the groups, or
\* no match
MatchVar(line) ==
  MatchVarName(line, IF Ch(line, 1) = "$" /\ Ch(line, 2) \in IdentStartSet
                       THEN Run(line, 2, WordSet) ELSE 0)

Radek(ln) == "Radek " \o ToString(ln)

\* a parseVar that counts the definition before it evaluates it
VarCounted(st, ln, name, r) ==
  IF r.ok
    THEN [st EXCEPT !.vars = Put(@, name, r.v), !.varCount = @ + 1]
    ELSE [st EXCEPT !.varCount = @ + 1, !.errors =
            Append(@, Radek(ln) \o " ($" \o name \o "): " \o r.msg)]

\* this.vars[name] = value; this.varCount++, or the catch clause
VarAssigned(st, ln, name, r) ==
  IF r.ok
    THEN [st EXCEPT !.vars = Put(@, name, r.v), !.varCount = @ + 1]
    ELSE [st EXCEPT !.errors =
            Append(@, Radek(ln) \o " ($" \o name \o "): " \o r.msg)]

\* a parseVar that counts the line before it looks at it
VarMatchedCounted(ln, st, m) ==
  IF ~m.ok
    THEN [st EXCEPT !.varCount = @ + 1, !.errors =
            Append(@, Radek(ln) \o ": neplatna definice promenne")]
    ELSE VarAssigned(st, ln, m.name, Eval(Trim(m.expr), st.vars, st.reg))

VarMatched(ln, st, m) ==
  IF ~m.ok
    THEN [st EXCEPT !.errors =
            Append(@, Radek(ln) \o ": neplatna definice promenne")]
    ELSE VarAssigned(st, ln, m.name, Eval(Trim(m.expr), st.vars, st.reg))

\* parseVar(line, ln) on a session [vars, errors, varCount, ..]
parseVar(line, ln, st) == VarMatched(ln, st, MatchVar(line))

(***************************************************************************)
(* parseBoard, phase 1: the command's shape, its dimensions                *)
(***************************************************************************)
\* whether \s+"([^"]+)" matches at 1-based position p, and where it ends
NameAt(line, p) ==
  LET b == Run(line, p, SpaceSet)
      q == p + b                                     \* the opening quote
      e == IndexOfCh(line, "\"", q) + 1              \* the closing quote
  IN  IF b >= 1 /\ Ch(line, q) = "\"" /\ e > q + 1
        THEN [ok |-> TRUE, name |-> Sub(line, q + 1, e - 1), end |-> e]
        ELSE [ok |-> FALSE, name |-> "", end |-> 0]

\* the least p >= p0 where the name matches, or 0: the end of the lazy (.+?)
FirstName(line, p0) == Least({p \in p0..Len(line) : NameAt(line, p).ok}, 0)

\* the dimensions begin after j characters of the first \s+, which is
\* greedy: the greatest j <= n for which the rest of the pattern matches
DimsStart(line, k, n) ==
  k + Greatest({j \in 1..n : FirstName(line, k + j + 1) # 0}, -k)

\* the match whose dimensions begin at ds and whose name begins at p
MatchBoardAt(line, id, ds, p, nm) ==
  IF ToLowerCase(Sub(line, 1, 5)) = "board" /\ ds # 0
    THEN [ok |-> TRUE, id |-> id, dims |-> Sub(line, ds, p - 1),
          name |-> nm.name, rest |-> TrimStart(SliceFrom(line, nm.end))]
    ELSE [ok |-> FALSE, id |-> Null, dims |-> "", name |-> "", rest |-> ""]

MatchBoardName(line, id, ds, p) == MatchBoardAt(line, id, ds, p, NameAt(line, p))

MatchBoardDims(line, id, ds) ==
  MatchBoardName(line, id, ds, FirstName(line, ds + 1))

\* k is where the first \s+ begins
MatchBoardFrom(line, id, k) ==
  MatchBoardDims(line, id, DimsStart(line, k, Run(line, k, SpaceSet)))

MatchBoardId(line, nid) ==
  IF nid > 0 /\ Ch(line, 7 + nid) = "]"
    THEN MatchBoardFrom(line, Some(Sub(line, 7, 6 + nid)), 8 + nid)
    ELSE MatchBoardFrom(line, Null, 6)

\* line.match(/^board(?:\[([a-zA-Z_]\w*)\])?\s+(.+?)\s+"([^"]+)"\s*(.*?)$/i)
MatchBoard(line) ==
  MatchBoardId(line, IF Ch(line, 6) = "[" /\ Ch(line, 7) \in IdentStartSet
                       THEN Run(line, 7, WordSet) ELSE 0)

\* a match of /\s*[xX]\s*(?=[0-9$({])/ that begins at 1-based position p:
\* its length, or 0.  (The source's class also holds the Cyrillic letter
\* kha, which is outside the model's alphabet.)
DimSepAt(str, p) ==
  LET a == Run(str, p, SpaceSet)
      b == Run(str, p + a + 1, SpaceSet)
  IN  IF Ch(str, p + a) \in {"x", "X"}
         /\ Ch(str, p + a + 1 + b) \in Digits \cup {"$", "(", "{"}
        THEN a + 1 + b ELSE 0

RECURSIVE SplitDims(_, _)
\* the separator that begins at p, or none when p = 0
SplitDimsAt(str, k, p) ==
  IF p = 0 THEN <<Sub(str, k, Len(str))>>
  ELSE <<Sub(str, k, p - 1)>> \o SplitDims(str, p + DimSepAt(str, p))

\* dimRaw.split(/\s*[xX]\s*(?=[0-9$({])/), from 1-based position k on
SplitDims(str, k) ==
  SplitDimsAt(str, k, Least({p \in k..Len(str) : DimSepAt(str, p) > 0}, 0))

\* rest.replace(/\s+#\s.*$/, ''): the text before the first white space
\* that is followed by # and white space
StripComment(rest) ==
  Sub(rest, 1,
      Least({p \in 1..Len(rest) :
               /\ IsSpace(Ch(rest, p))
               /\ Ch(rest, p + Run(rest, p, SpaceSet)) = "#"
               /\ IsSpace(Ch(rest, p + Run(rest, p, SpaceSet) + 1))},
            Len(rest) + 1) - 1)

(***************************************************************************)
(* parseBoard, phase 2: the sections of the rest.  Each step yields what   *)
(* it set, the rest it left, and thrown/msg when it threw.                 *)
(***************************************************************************)
\* the section that ends at the next keyword of the list: its text and
\* what remains
SectionAt(after, pos) ==
  IF pos # -1
    THEN [str |-> Trim(Slice(after, 0, pos)), rest |-> Trim(SliceFrom(after, pos))]
    ELSE [str |-> Trim(after), rest |-> ""]

Section(after, keywords) == SectionAt(after, findNextKeyword(after, keywords).pos)

\* the greatest integer whose square is at most n
RECURSIVE FloorSqrtIn(_, _, _)
FloorSqrtIn(n, lo, hi) ==
  IF lo >= hi THEN lo
  ELSE LET mid == (lo + hi + 1) \div 2
       IN  IF mid * mid <= n THEN FloorSqrtIn(n, mid, hi)
           ELSE FloorSqrtIn(n, lo, mid - 1)

FloorSqrt(n) == FloorSqrtIn(n, 0, 46340)

\* r is the whole part of actualW in thousandths, sq its square
DiffersAt(w, sq, r) ==
  \/ r < w - 1000                                   \* actualW < w - 1
  \/ r > w + 1000 \/ (r = w + 1000 /\ r * r # sq)   \* actualW > w + 1

\* a parseBoard that warns from a difference of 1 on
WidthDiffersFromOne(w, sq) ==
  DiffersAt(w, sq, FloorSqrt(sq)) \/ sq = (w + 1000) * (w + 1000)
    \/ (w >= 1000 /\ sq = (w - 1000) * (w - 1000))

\* Math.abs(w - actualW) > 1, where actualW is the square root of sq
\* millionths and w is in thousandths
WidthDiffers(w, sq) == DiffersAt(w, sq, FloorSqrt(sq))

\* Math.round(actualW)
RoundUnits(sq) == (FloorSqrt(sq) + 500) \div 1000

NoPos == [thrown |-> FALSE, msg |-> "", warned |-> FALSE, actual |-> 0,
          x |-> Null, y |-> Null, z |-> Null, hasPos |-> FALSE,
          angle |-> ZeroAngle, fromTo |-> Null, w |-> 0, rest |-> ""]

PosThrow(m, warn) == [NoPos EXCEPT !.thrown = TRUE, !.msg = m, !.warned = warn]

\* (x2-x1)**2 + (y2-y1)**2 of c = <<x1, y1, x2, y2>>
Squared(c) == (c[3] - c[1]) * (c[3] - c[1]) + (c[4] - c[2]) * (c[4] - c[2])

\* a parseBoard that keeps the declared width of a from/to board
PlacedDeclared(c, sq, w0, z, rest) ==
  [thrown |-> FALSE, msg |-> "", warned |-> WidthDiffers(w0, sq),
   actual |-> RoundUnits(sq), x |-> Some(c[1]), y |-> Some(c[2]), z |-> Some(z),
   hasPos |-> TRUE, angle |-> Atan2Deg(c[4] - c[2], c[3] - c[1]),
   fromTo |-> Some([x1 |-> c[1], y1 |-> c[2], x2 |-> c[3], y2 |-> c[4]]),
   w |-> w0, rest |-> rest]

\* x = x1; y = y1; hasPos = true; fromTo, angle and the width, with the
\* warning the width may have drawn
Placed(c, sq, w0, z, rest) ==
  [thrown |-> FALSE, msg |-> "", warned |-> WidthDiffers(w0, sq),
   actual |-> RoundUnits(sq), x |-> Some(c[1]), y |-> Some(c[2]), z |-> Some(z),
   hasPos |-> TRUE, angle |-> Atan2Deg(c[4] - c[2], c[3] - c[1]),
   fromTo |-> Some([x1 |-> c[1], y1 |-> c[2], x2 |-> c[3], y2 |-> c[4]]),
   w |-> RoundSqrt(sq), rest |-> rest]

\* z = this.eval(zStr): the warning was pushed before it
FromToZ(c, sq, w0, rest, zv) ==
  IF zv.ok THEN Placed(c, sq, w0, zv.v, rest)
  ELSE [PosThrow(zv.msg, WidthDiffers(w0, sq)) EXCEPT !.actual = RoundUnits(sq)]

FromToZSection(c, sq, w0, zsec, vs, rg) ==
  FromToZ(c, sq, w0, zsec.rest, Eval(zsec.str, vs, rg))

\* Check for z after to coords: z counts only at the start of what remains
FromToRest(c, sq, w0, rest1, zPos, vs, rg) ==
  IF zPos # -1 /\ Trim(Slice(rest1, 0, zPos)) = ""
    THEN FromToZSection(c, sq, w0,
                        Section(Trim(SliceFrom(rest1, zPos + 1)),
                                <<"cut", "view", "color">>), vs, rg)
    ELSE Placed(c, sq, w0, 0, rest1)

FromToValues(ev, w0, rest1, vs, rg) ==
  IF ev.ok
    THEN FromToRest(ev.v, Squared(ev.v), w0, rest1, findKeyword(rest1, "z"), vs, rg)
    ELSE PosThrow(ev.msg, FALSE)

FromToCoords(fromCoords, toCoords, w0, rest1, vs, rg) ==
  IF Len(fromCoords) # 2
    THEN PosThrow("'from' potrebuje 2 hodnoty (X1,Y1)", FALSE)
  ELSE IF Len(toCoords) # 2
    THEN PosThrow("'to' potrebuje 2 hodnoty (X2,Y2)", FALSE)
  ELSE FromToValues(EvalAll(fromCoords \o toCoords, vs, rg), w0, rest1, vs, rg)

\* After 'to', read until next keyword
FromToSection(afterFrom, toPos, sec, w0, vs, rg) ==
  FromToCoords(splitCoords(Trim(Slice(afterFrom, 0, toPos))),
               splitCoords(sec.str), w0, sec.rest, vs, rg)

FromToAt(afterFrom, toPos, w0, vs, rg) ==
  IF toPos = -1 THEN PosThrow("'from' vyzaduje 'to'", FALSE)
  ELSE FromToSection(afterFrom, toPos,
                     Section(Trim(SliceFrom(afterFrom, toPos + 2)),
                             <<"z", "cut", "view", "color">>), w0, vs, rg)

FromToAfter(afterFrom, w0, vs, rg) ==
  FromToAt(afterFrom, findKeyword(afterFrom, "to"), w0, vs, rg)

\* from X1,Y1 to X2,Y2 [z Z]
ParseFromTo(rest0, fromPos, w0, vs, rg) ==
  FromToAfter(SliceFrom(rest0, fromPos + 4), w0, vs, rg)

\* a parseBoard that forgets hasPos = true after at
AtValuesUnmarked(ev, w0, rest) ==
  IF ev.ok
    THEN [NoPos EXCEPT !.x = Some(ev.v[1]), !.y = Some(ev.v[2]),
                       !.z = Some(ev.v[3]), !.w = w0, !.rest = rest]
    ELSE PosThrow(ev.msg, FALSE)

AtValues(ev, w0, rest) ==
  IF ev.ok
    THEN [NoPos EXCEPT !.x = Some(ev.v[1]), !.y = Some(ev.v[2]),
                       !.z = Some(ev.v[3]), !.hasPos = TRUE, !.w = w0,
                       !.rest = rest]
    ELSE PosThrow(ev.msg, FALSE)

AtCoords(coords, w0, rest, vs, rg) ==
  IF Len(coords) # 3 THEN PosThrow("Pozice potrebuje 3 hodnoty (X, Y, Z)", FALSE)
  ELSE AtValues(EvalAll(coords, vs, rg), w0, rest)

AtSection(sec, w0, vs, rg) == AtCoords(splitCoords(sec.str), w0, sec.rest, vs, rg)

\* at X,Y,Z
ParseAt(rest0, atPos, w0, vs, rg) ==
  AtSection(Section(Trim(SliceFrom(rest0, atPos + 2)), <<"cut", "view", "color">>),
            w0, vs, rg)

PositionAt(rest0, fromPos, atPos, w0, vs, rg) ==
  IF fromPos # -1 THEN ParseFromTo(rest0, fromPos, w0, vs, rg)
  ELSE IF atPos # -1 THEN ParseAt(rest0, atPos, w0, vs, rg)
  ELSE [NoPos EXCEPT !.w = w0, !.rest = rest0]

\* 1. Position
ParsePosition(rest0, w0, vs, rg) ==
  PositionAt(rest0, findKeyword(rest0, "from"), findKeyword(rest0, "at"),
             w0, vs, rg)

NoCuts == [left |-> Null, right |-> Null, top |-> Null, bottom |-> Null]

CutSides == <<"left", "right", "top", "bottom">>

\* the 1-based position of the first white space at or after k, or
\* Len(str) + 1
SpaceFrom(str, k) ==
  Least({j \in k..Len(str) : IsSpace(Ch(str, j))}, Len(str) + 1)

\* the pair of a side at k and the value that begins at vstart and ends
\* before vend
CutPairOf(str, k, side, vstart, vend) ==
  IF vstart > k + Len(side) /\ vend > vstart
    THEN [len |-> vend - k, side |-> side, value |-> Sub(str, vstart, vend - 1)]
    ELSE [len |-> 0, side |-> "", value |-> ""]

CutPairFrom(str, k, side, vstart) ==
  CutPairOf(str, k, side, vstart, SpaceFrom(str, vstart))

\* a match of /\b(left|right|top|bottom)\s+([^\s]+)/i at 1-based position
\* k of the cut section: the side, the value and the length, or len = 0
CutPairSide(str, k, sides) ==
  IF sides = {} \/ IsWord(Ch(str, k - 1))
    THEN [len |-> 0, side |-> "", value |-> ""]
    ELSE CutPairFrom(str, k, CutSides[CHOOSE n \in sides : TRUE],
                     k + Len(CutSides[CHOOSE n \in sides : TRUE])
                       + Run(str, k + Len(CutSides[CHOOSE n \in sides : TRUE]),
                             SpaceSet))

CutPairAt(str, k) ==
  CutPairSide(str, k,
              {n \in 1..4 :
                 ToLowerCase(Sub(str, k, k + Len(CutSides[n]) - 1)) = CutSides[n]})

RECURSIVE ScanCuts(_, _, _, _, _)
\* cuts[side] = this.eval(value)
CutValue(str, p, cuts, vs, rg, m, v) ==
  IF v.ok THEN ScanCuts(str, p + m.len, [cuts EXCEPT ![m.side] = Some(v.v)], vs, rg)
  ELSE [thrown |-> TRUE, msg |-> v.msg, cuts |-> cuts]

CutPair(str, p, cuts, vs, rg, m) ==
  CutValue(str, p, cuts, vs, rg, m, Eval(m.value, vs, rg))

\* the next pair is at p; none when p = 0
CutNext(str, cuts, vs, rg, p) ==
  IF p = 0 THEN [thrown |-> FALSE, msg |-> "", cuts |-> cuts]
  ELSE CutPair(str, p, cuts, vs, rg, CutPairAt(str, p))

\* while ((cm = cutRe.exec(cutStr)) !== null) ..., from 1-based position k on
ScanCuts(str, k, cuts, vs, rg) ==
  CutNext(str, cuts, vs, rg,
          Least({p \in k..Len(str) : CutPairAt(str, p).len > 0}, 0))

CutScanned(sc, rest) ==
  [thrown |-> sc.thrown, msg |-> sc.msg, cuts |-> Some(sc.cuts), rest |-> rest]

CutSection(sec, vs, rg) ==
  CutScanned(ScanCuts(sec.str, 1, NoCuts, vs, rg), sec.rest)

CutAt(rest0, cutPos, vs, rg) ==
  IF cutPos = -1
    THEN [thrown |-> FALSE, msg |-> "", cuts |-> Null, rest |-> rest0]
    ELSE CutSection(Section(Trim(SliceFrom(rest0, cutPos + 3)),
                            <<"view", "color">>), vs, rg)

\* 2. Cut
ParseCut(rest0, vs, rg) == CutAt(rest0, findKeyword(rest0, "cut"), vs, rg)

\* the characters of the view argument: the first that is not f, s or t
\* throws; later occurrences of a letter are dropped
RECURSIVE ScanView(_, _, _)
ScanView(str, k, valid) ==
  IF k > Len(str) THEN [thrown |-> FALSE, msg |-> "", view |-> valid]
  ELSE LET ch == Ch(str, k)
       IN  IF ch \notin {"f", "s", "t"}
             THEN [thrown |-> TRUE, view |-> valid,
                   msg |-> "Neplatny pohled '" \o ch \o "', povoleno: f, s, t"]
           ELSE ScanView(str, k + 1,
                         IF Includes(valid, ch) THEN valid ELSE valid \o ch)

ViewScanned(sv, rest) ==
  IF sv.thrown
    THEN [thrown |-> TRUE, msg |-> sv.msg, view |-> Null, rest |-> rest]
  ELSE IF sv.view = ""
    THEN [thrown |-> TRUE, msg |-> "Prazdny pohled", view |-> Null, rest |-> rest]
  ELSE [thrown |-> FALSE, msg |-> "", view |-> Some(sv.view), rest |-> rest]

\* a parseBoard that scans the argument of view as it is written
ViewSectionCased(sec) == ViewScanned(ScanView(sec.str, 1, ""), sec.rest)

ViewSection(sec) == ViewScanned(ScanView(ToLowerCase(sec.str), 1, ""), sec.rest)

ViewAt(rest0, viewPos) ==
  IF viewPos = -1
    THEN [thrown |-> FALSE, msg |-> "", view |-> Null, rest |-> rest0]
    ELSE ViewSection(Section(Trim(SliceFrom(rest0, viewPos + 4)), <<"color">>))

\* 3. View
ParseView(rest0) == ViewAt(rest0, findKeyword(rest0, "view"))

Min(a, b) == IF a < b THEN a ELSE b

\* afterColor.match(/^(#[0-9a-fA-F]{3,6})/) with n hexadecimal digits
ColorMatch(afterColor, n) ==
  IF Ch(afterColor, 1) = "#" /\ n >= 3 THEN Some(Sub(afterColor, 1, 1 + n))
  ELSE Null

ColorAfter(afterColor) ==
  ColorMatch(afterColor, Min(Run(afterColor, 2, HexSet), 6))

ColorAt(rest0, colorPos) ==
  IF colorPos = -1 THEN Null ELSE ColorAfter(Trim(SliceFrom(rest0, colorPos + 5)))

\* 4. Color
ParseColor(rest0) == ColorAt(rest0, findKeyword(rest0, "color"))

AUTO_COLORS ==
  <<"#c9a05a", "#b8864a", "#d4b87a", "#a07040",
    "#e8c99a", "#8b6035", "#daa060", "#c08040",
    "#7a6050", "#d4a080", "#b09070", "#9a7055">>

(***************************************************************************)
(* parseBoard(line, ln).  st is the session: vars, boards, errors, reg,    *)
(* varCount.  The outcome is the session after the call.                   *)
(***************************************************************************)
\* a parseBoard without its catch clause: the exception leaves the call
Rethrown(st, ln, name, msg) == [st EXCEPT !.uncaught = Some(msg)]

\* errors.push(`Radek ${ln} (${name}): ${e.message}`) of the catch clause
Caught(st, ln, name, msg) ==
  [st EXCEPT !.errors = Append(@, Radek(ln) \o " (" \o name \o "): " \o msg)]

\* the warning pushed when the width differs from the from/to distance
Warned(st, ln, name, w, actual) ==
  [st EXCEPT !.errors =
     Append(@, Radek(ln) \o " (" \o name \o "): Sirka " \o MilliToString(w)
               \o " se lisi od vzdalenosti from/to " \o ToString(actual)
               \o ", pouzita vzdalenost")]

\* the outcome of the try block when it throws: the session, the message
Thrown(st, msg) == [thrown |-> TRUE, st |-> st, msg |-> msg]

\* a parseBoard that pushes the board and forgets to register it
PushedUnregistered(st, board) ==
  [thrown |-> FALSE, msg |-> "", st |-> [st EXCEPT !.boards = Append(@, board)]]

\* a parseBoard that puts the new board in front of the list
PushedInFront(st, board) ==
  [thrown |-> FALSE, msg |-> "",
   st |-> [st EXCEPT !.boards = <<board>> \o @, !.reg = Put(@, board.id, board)]]

\* this.boards.push(board); this.reg[id] = board
Pushed(st, board) ==
  [thrown |-> FALSE, msg |-> "",
   st |-> [st EXCEPT !.boards = Append(@, board), !.reg = Put(@, board.id, board)]]

\* a parseBoard that picks the palette color by the commands run so far,
\* variables included
BoardColoredByLine(st, id, name, whd, pos, cuts, view, given) ==
  Pushed(st, [id |-> id, name |-> name, w |-> pos.w, h |-> whd[2], d |-> whd[3],
              x |-> pos.x, y |-> pos.y, z |-> pos.z, hasPos |-> pos.hasPos,
              color |-> IF given # Null THEN given[1]
                        ELSE AUTO_COLORS[((Len(st.boards) + st.varCount)
                                           % Len(AUTO_COLORS)) + 1],
              visible |-> TRUE, view |-> view, angle |-> pos.angle,
              fromTo |-> pos.fromTo, cuts |-> cuts])

\* if (!color) color = AUTO_COLORS[this.boards.length % AUTO_COLORS.length]
BoardColored(st, id, name, whd, pos, cuts, view, given) ==
  Pushed(st, [id |-> id, name |-> name, w |-> pos.w, h |-> whd[2], d |-> whd[3],
              x |-> pos.x, y |-> pos.y, z |-> pos.z, hasPos |-> pos.hasPos,
              color |-> IF given # Null THEN given[1]
                        ELSE AUTO_COLORS[(Len(st.boards) % Len(AUTO_COLORS)) + 1],
              visible |-> TRUE, view |-> view, angle |-> pos.angle,
              fromTo |-> pos.fromTo, cuts |-> cuts])

BoardViewed(st, id, name, whd, pos, cuts, vw) ==
  IF vw.thrown THEN Thrown(st, vw.msg)
  ELSE BoardColored(st, id, name, whd, pos, cuts, vw.view, ParseColor(vw.rest))

BoardCut(st, id, name, whd, pos, cut) ==
  IF cut.thrown THEN Thrown(st, cut.msg)
  ELSE BoardViewed(st, id, name, whd, pos, cut.cuts, ParseView(cut.rest))

\* st is the session with the warning the position may have pushed
BoardWarned(st, id, name, whd, pos) ==
  IF pos.thrown THEN Thrown(st, pos.msg)
  ELSE BoardCut(st, id, name, whd, pos, ParseCut(pos.rest, st.vars, st.reg))

BoardPlaced(st, ln, id, name, whd, pos) ==
  BoardWarned(IF pos.warned THEN Warned(st, ln, name, whd[1], pos.actual) ELSE st,
              id, name, whd, pos)

\* whd is the outcome of evaluating the three dimensions
BoardSized(st, ln, id, name, rest, whd) ==
  IF ~whd.ok THEN Thrown(st, whd.msg)
  ELSE BoardPlaced(st, ln, id, name, whd.v,
                   ParsePosition(rest, whd.v[1], st.vars, st.reg))

BoardDims(st, ln, id, dimRaw, name, rest, dims) ==
  IF Len(dims) # 3
    THEN Thrown(st, "Potrebuji 3 rozmery (S x V x H), dostal jsem "
                    \o ToString(Len(dims)) \o ": \"" \o dimRaw \o "\"")
    ELSE BoardSized(st, ln, id, name, rest, EvalAll(dims, st.vars, st.reg))

\* the body of the try block: the session after it, and whether and with
\* what message it threw
BoardBody(st, ln, id, dimRaw, name, rest0) ==
  BoardDims(st, ln, id, dimRaw, name, Trim(StripComment(rest0)),
            SplitDims(dimRaw, 1))

TryOutcome(ln, name, r) ==
  IF r.thrown THEN Caught(r.st, ln, name, r.msg) ELSE r.st

\* try { ... } catch(e) { this.errors.push(...) }
TryBoard(st, ln, id, dimRaw, name, rest0) ==
  TryOutcome(ln, name, BoardBody(st, ln, id, dimRaw, name, rest0))

\* a parseBoard without its duplicate check
NeverRegistered(st, id) == FALSE

\* this.reg[id] is truthy
IsRegistered(st, id) == Has(st.reg, id)

\* if (this.reg[id]) { this.errors.push(...); return; }
BoardNamed(ln, st, m, id) ==
  IF IsRegistered(st, id)
    THEN [st EXCEPT !.errors =
            Append(@, Radek(ln) \o ": duplicitni ID [" \o id \o "]")]
    ELSE TryBoard(st, ln, id, Trim(m.dims), m.name, Trim(m.rest))

\* const id = m[1] || `b${this.boards.length}`
BoardMatched(ln, st, m) ==
  IF ~m.ok
    THEN [st EXCEPT !.errors =
            Append(@, Radek(ln)
                      \o ": neplatny board (vzor: board[id] SxVxH \"nazev\")")]
    ELSE BoardNamed(ln, st, m, IF m.id # Null THEN m.id[1]
                               ELSE "b" \o ToString(Len(st.boards)))

parseBoard(line, ln, st) == BoardMatched(ln, st, MatchBoard(line))

(***************************************************************************)
(* The session.  new DSLParser(text) leaves the state of Init; parse()     *)
(* splits the text and runs one iteration of its loop per line.  pc is     *)
(* where the call is: "new" before parse(), "loop" inside the for loop,    *)
(* "done" after the return, "thrown" when an exception left parse().       *)
(***************************************************************************)
MaxLines == 3

\* the lines the texts of the model are made of: ids, the registry,
\* {id.prop} references
Pool ==
  <<"# note",
    "$A = 2",
    "board[a] 100 x 200 x 50 \"Test\"",
    "  at 10, 20, 30",
    "board[a] 2 x 2 x 2 \"Again\"",
    "board {a.w} x 2 x 1 \"Ref\"",
    "board[b1] 1 x 1 x 1 \"One\"",
    "board 3 x 4 x 5 \"Auto\"",
    "board {constructor.x}+5 x 1 x 1 \"Proto\"">>

\* lines that fail, one per way of failing, beside lines that do not
FailPool ==
  <<"# note",
    "$A = 2",
    "board[a] 100 x 200 x 50 \"Test\"",
    "  at 10, 20, 30",
    "$B = $C + 1",
    "$B = abc",
    "$B = {z.w}",
    "board oops",
    "board 1 x 1 \"Two\"",
    "board 1 x 1 x 1 \"Pair\" at 1, 2",
    "board 9 x 1 x 1 \"Skew\" from 0,0 to 3,4 view q">>

\* lines that define variables and lines that refer to them
VarPool ==
  <<"",
    "$A = 2",
    "$A = 3",
    "$B = $A + 1",
    "$A = $A + 1",
    "board $A x 1 x 1 \"Var\"",
    "board $constructor x 1 x 1 \"Ctor\"",
    "show $A">>

\* lines for the palette: boards with and without a color, lines that
\* create no board
ColorPool ==
  <<"# note",
    "$A = 2",
    "paint",
    "board 1 x 1 x 1 \"Plain\"",
    "board 1 x 1 x 1 \"Red\" color #ff0000",
    "board 1 x 1 \"Two\"">>

\* the most boards a text creates before its last lines, and the most last
\* lines
MaxBefore == 12

MaxAfter == 2

\* the option sections of a board command, and the command with them in
\* every order
OptionSections == <<"at 1, 2, 3", "cut left 5", "view f", "color #ff0000">>

OptionOrders ==
  {p \in [1..4 -> 1..4] : \A a, b \in 1..4 : p[a] = p[b] => a = b}

OptionLine(p) ==
  "board 1 x 1 x 1 \"Perm\" " \o OptionSections[p[1]] \o " "
    \o OptionSections[p[2]] \o " " \o OptionSections[p[3]] \o " "
    \o OptionSections[p[4]]

OptionLines == {OptionLine(p) : p \in OptionOrders}

\* the lines that may come before such a command
LeadPool ==
  <<"# note",
    "$A = 2",
    "oops",
    "board[a] 1 x 1 x 1 \"Lead\"">>

\* lines for the color section: 3, 6, 4 and 2 digits, a word
HexPool ==
  <<"# note",
    "$A = 2",
    "oops",
    "board 1 x 1 x 1 \"Plain\"",
    "board 1 x 1 x 1 \"Three\" color #abc",
    "board 1 x 1 x 1 \"Six\" color #FF0000",
    "board 1 x 1 x 1 \"Four\" color #abcd",
    "board 1 x 1 x 1 \"Two\" color #ab",
    "board 1 x 1 x 1 \"Word\" color red">>

\* lines for from/to: along x, along y with a width one short, a 3-4-5
\* triangle with a z and a wrong width, a diagonal, a variable and a z
\* that does not follow the coordinates
FromToPool ==
  <<"# note",
    "$A = 2",
    "oops",
    "board 10 x 1 x 1 \"Flat\" from 0,0 to 10,0",
    "board 9 x 1 x 1 \"Up\" from 0,0 to 0,10",
    "board 1 x 1 x 1 \"Skew\" from 1,1 to 4,5 z 7",
    "board 1.5 x 1 x 1 \"Diag\" from 0,0 to 1,1",
    "board 3.5 x 1 x 1 \"Back\" from $A,0 to 0,0 cut left 1 z 3">>

\* lines for the cuts: none, one side, two sides before a view, the bare
\* keyword and a side without a value
CutPool ==
  <<"# note",
    "$A = 2",
    "oops",
    "board 1 x 1 x 1 \"Plain\"",
    "board 1 x 1 x 1 \"Left\" cut left 5",
    "board 1 x 1 x 1 \"Both\" cut top $A bottom 3 view f",
    "board 1 x 1 x 1 \"Bare\" cut",
    "board 1 x 1 x 1 \"Side\" color #abc cut left">>

\* lines for the view: none, a repeated letter, upper case before a color,
\* a foreign character and the keyword without an argument
ViewPool ==
  <<"# note",
    "$A = 2",
    "oops",
    "board 1 x 1 x 1 \"Plain\"",
    "board 1 x 1 x 1 \"Dup\" view fft",
    "board 1 x 1 x 1 \"Order\" cut left 1 view SF color #abc",
    "board 1 x 1 x 1 \"Bad\" view fx",
    "board 1 x 1 x 1 \"Empty\" view">>

\* lines for calls that follow each other: a variable, a board that needs
\* it, and a variable that needs the board
MaxCallLines == 2

CallPool ==
  <<"",
    "oops",
    "$A = 2",
    "board[a] $A x 1 x 1 \"Own\"",
    "$B = {a.w}">>

\* lines for the classifier: blank, the two comments, and indented a
\* variable, a board in capitals and a position; a word that starts with
\* board
ClassPool ==
  <<"",
    "  # note",
    "// note",
    "  $A = 2",
    "  Board[a] 1 x 1 x 1 \"Cap\"",
    "  at 10, 20, 30",
    "boardwalk">>

\* lines for the properties: a board with a position and one without, both
\* with the id a, and the properties of a as dimensions, as coordinates and
\* as the value of a variable; a property that does not exist
PropPool ==
  <<"",
    "oops",
    "board[a] 4 x 6 x 8 \"Own\" at 1, 2, 3",
    "board[a] 5 x 7 x 9 \"Bare\"",
    "board {a.right} x {a.top} x {a.back} \"Edge\" at {a.cx}, {a.cy}, {a.y2}",
    "$V = {a.x2}",
    "$V = {a.foo}">>

\* lines for math: precedence and parentheses in the dimensions of a
\* board; a rounded quotient, a division by zero, a letter, two operators
\* in a row and a missing operand as the value of a variable
MathPool ==
  <<"",
    "oops",
    "board 2+3*4 x (2+3)*4 x 7/2 \"Calc\"",
    "$A = 1/3",
    "$A = 1/0",
    "$A = 2 a",
    "$A = 2**3",
    "$A = 1+">>

\* lines for the list of boards: four cuts, a cube under the bare keyword,
\* a panel with a cut of 0 and a beam without cuts
ListPool ==
  <<"",
    "oops",
    "$A = 2",
    "board 5 x 4 x 1 \"All\" cut left 3 right 2 top 1 bottom 1.5",
    "board 1 x 1 x 1 \"Cube\" cut",
    "board 8 x 0.18 x 4 \"Panel\" cut top 0",
    "board 0.5 x 0.6 x 20 \"Beam\"">>

\* lines for the dimensions: operands whose names hold an x before a digit,
\* and operands that do not
DimPool ==
  <<"",
    "oops",
    "$x1 = 2",
    "$T = 2",
    "board[a] 4 x 6 x 8 \"Own\" at 1, 2, 3",
    "board {a.x2} x 1 x 1 \"Prop\"",
    "board $x1 x 1 x 1 \"Var\"",
    "board $T x {a.cx} x (1+1) \"Fine\"">>

\* lines for the substitution of a variable: a negative, a positive and a
\* zero value, and the variable after -, + and *, with and without spaces
SubstPool ==
  <<"",
    "oops",
    "$V = -5",
    "$V = 3",
    "$V = 0",
    "$R = 10-$V",
    "$R = 10 - $V",
    "board 10+$V x 10*$V+60 x 10 - $V \"Calc\"">>

\* lines for the keywords: a board whose id is a keyword, a reference to it
\* and parentheses after a keyword in capitals, a color that stands before
\* a view, and words that begin with a keyword
KeyPool ==
  <<"",
    "oops",
    "$A = 2",
    "board[cut] 1 x 1 x 1 \"Id\"",
    "board 1 x 1 x 1 \"Ref\" AT {cut.w}, (2), 3",
    "board 1 x 1 x 1 \"Next\" at 1, 2, 3 color #abc view f",
    "board 1 x 1 x 1 \"Word\" attic cutter">>

\* lines for the position: none, at with three and with two values,
\* from/to with two values each, with three after from and with one after to
PosPool ==
  <<"",
    "oops",
    "$A = 2",
    "board 1 x 1 x 1 \"None\"",
    "board 1 x 1 x 1 \"At\" at 1, 2, 3",
    "board 1 x 1 x 1 \"Two\" at 1, 2",
    "board 5 x 1 x 1 \"Line\" from 0,0 to 3,4",
    "board 5 x 1 x 1 \"Three\" from 0,0,0 to 3,4",
    "board 5 x 1 x 1 \"One\" from 0,0 to 3">>

\* lines for the count of variables: assignments that succeed, one without
\* a value, one of an unknown variable, one dividing by zero, a board
CountPool ==
  <<"",
    "oops",
    "$A = 2",
    "$B = $A + 1",
    "$A",
    "$A = $C",
    "$A = 1/0",
    "board $A x 1 x 1 \"Var\"">>

\* the texts of at most n lines of a pool
RECURSIVE TextsOf(_, _)
TextsOf(pool, n) ==
  IF n = 0 THEN {}
  ELSE {pool[k] : k \in DOMAIN pool}
       \cup {t \o "\n" \o pool[k] : t \in TextsOf(pool, n - 1), k \in DOMAIN pool}

\* what the list of boards has computed from the boards of a parse: the
\* outline and the two views of each board, null until it is computed
NoList == [shapes |-> Null, views |-> Null]

\* the state a session has between two lines, as parseVar and parseBoard
\* see it
Session ==
  [vars |-> vars, boards |-> boards, errors |-> errors, reg |-> reg,
   varCount |-> varCount, uncaught |-> Null]

\* constructor(text)
InitWith(pool) ==
  /\ text \in TextsOf(pool, MaxLines)
  /\ lines = <<>>
  /\ i = 0
  /\ pc = "new"
  /\ vars = EmptyObject
  /\ boards = <<>>
  /\ errors = <<>>
  /\ reg = EmptyObject
  /\ varCount = 0
  /\ result = Null
  /\ listed = NoList

Init == InitWith(Pool)

\* const lines = this.text.split('\n')
ParseEnter ==
  /\ pc = "new"
  /\ lines' = SplitLines(text)
  /\ pc' = "loop"
  /\ UNCHANGED <<text, i, vars, boards, errors, reg, varCount, result, listed>>

\* a parse() that joins an indented line to the line before it, whatever
\* that line is
LineJoined ==
  IF i >= 1 /\ IsSpace(Ch(lines[i + 1], 1))
    THEN Trim(lines[i]) \o " " \o Trim(lines[i + 1])
    ELSE Trim(lines[i + 1])

\* const line = raw.trim(), for the iteration the loop is about to run
Line == Trim(lines[i + 1])

InLoop == pc = "loop" /\ i < Len(lines)

IsSkipped(line) == line = "" \/ StartsWith(line, "#") \/ StartsWith(line, "//")

IsVar(line) == StartsWith(line, "$")

\* a parse() that tests /^board/ without the flag i
IsBoardCased(line) == Sub(line, 1, 5) = "board"

\* /^board/i.test(line)
IsBoard(line) == ToLowerCase(Sub(line, 1, 5)) = "board"

\* the session after the call of a handler
Continue(s) ==
  /\ vars' = s.vars
  /\ boards' = s.boards
  /\ errors' = s.errors
  /\ reg' = s.reg
  /\ varCount' = s.varCount
  /\ IF s.uncaught # Null THEN pc' = "thrown" /\ i' = i
     ELSE pc' = "loop" /\ i' = i + 1
  /\ UNCHANGED <<text, lines, result, listed>>

\* if (!line || line.startsWith('#') || line.startsWith('//')) continue
SkipLine ==
  /\ InLoop
  /\ IsSkipped(Line)
  /\ i' = i + 1
  /\ UNCHANGED <<text, lines, pc, vars, boards, errors, reg, varCount, result, listed>>

\* if (line.startsWith('$')) { this.parseVar(line, i+1); continue; }
VarLine ==
  /\ InLoop
  /\ ~IsSkipped(Line)
  /\ IsVar(Line)
  /\ Continue(parseVar(Line, i + 1, Session))

\* if (/^board/i.test(line)) { this.parseBoard(line, i+1); continue; }
BoardLine ==
  /\ InLoop
  /\ ~IsSkipped(Line)
  /\ ~IsVar(Line)
  /\ IsBoard(Line)
  /\ Continue(parseBoard(Line, i + 1, Session))

\* this.errors.push(`Radek ${i+1}: neznamy prikaz`)
UnknownLine ==
  /\ InLoop
  /\ ~IsSkipped(Line)
  /\ ~IsVar(Line)
  /\ ~IsBoard(Line)
  /\ Continue([Session EXCEPT !.errors =
                 Append(@, Radek(i + 1) \o ": neznamy prikaz")])

\* return { boards: this.boards, errors: this.errors, varCount: this.varCount }
Return ==
  /\ pc = "loop"
  /\ i = Len(lines)
  /\ result' = Some([boards |-> boards, errors |-> errors, varCount |-> varCount])
  /\ pc' = "done"
  /\ UNCHANGED <<text, lines, i, vars, boards, errors, reg, varCount, listed>>

Next ==
  \/ ParseEnter
  \/ SkipLine
  \/ VarLine
  \/ BoardLine
  \/ UnknownLine
  \/ Return

Spec == Init /\ [][Next]_vars_

\* parse() has been called and has not returned
Running == pc = "new" \/ pc = "loop"

\* the call moves on: to the loop, to the next line, to its end
Advance ==
  /\ Running
  /\ pc' \in {"loop", "done", "thrown"}
  /\ i' \in {i, i + 1}
  /\ <<pc', i'>> # <<pc, i>>

\* parse() is one synchronous call: while it runs, it takes its next step
FairSpec == Spec /\ WF_<<pc, i>>(Advance)

InitFail == InitWith(FailPool)

SpecFail == InitFail /\ [][Next]_vars_

InitVars == InitWith(VarPool)

SpecVars == InitVars /\ [][Next]_vars_

\* k board commands without a color, each on its line
RECURSIVE Before(_)
Before(k) == IF k = 0 THEN "" ELSE ColorPool[4] \o "\n" \o Before(k - 1)

\* new DSLParser(text) for a text of up to MaxBefore boards and then up to
\* MaxAfter lines of ColorPool
InitColors ==
  /\ text \in {Before(k) \o t : k \in 0..MaxBefore, t \in TextsOf(ColorPool, MaxAfter)}
  /\ lines = <<>>
  /\ i = 0
  /\ pc = "new"
  /\ vars = EmptyObject
  /\ boards = <<>>
  /\ errors = <<>>
  /\ reg = EmptyObject
  /\ varCount = 0
  /\ result = Null
  /\ listed = NoList

SpecColors == InitColors /\ [][Next]_vars_

\* new DSLParser(text) for a board command with its four option sections in
\* some order, after up to MaxAfter lines of LeadPool
InitOptions ==
  /\ text \in OptionLines
                \cup {t \o "\n" \o l : t \in TextsOf(LeadPool, MaxAfter),
                                       l \in OptionLines}
  /\ lines = <<>>
  /\ i = 0
  /\ pc = "new"
  /\ vars = EmptyObject
  /\ boards = <<>>
  /\ errors = <<>>
  /\ reg = EmptyObject
  /\ varCount = 0
  /\ result = Null
  /\ listed = NoList

SpecOptions == InitOptions /\ [][Next]_vars_

SpecHex == InitWith(HexPool) /\ [][Next]_vars_

SpecFromTo == InitWith(FromToPool) /\ [][Next]_vars_

SpecCut == InitWith(CutPool) /\ [][Next]_vars_

SpecView == InitWith(ViewPool) /\ [][Next]_vars_

SpecClass == InitWith(ClassPool) /\ [][Next]_vars_

SpecProp == InitWith(PropPool) /\ [][Next]_vars_

SpecMath == InitWith(MathPool) /\ [][Next]_vars_

SpecCount == InitWith(CountPool) /\ [][Next]_vars_

SpecPos == InitWith(PosPool) /\ [][Next]_vars_

SpecKey == InitWith(KeyPool) /\ [][Next]_vars_

SpecSubst == InitWith(SubstPool) /\ [][Next]_vars_

SpecDim == InitWith(DimPool) /\ [][Next]_vars_

\* a constructor that keeps the variables and the registry of the session
\* before it
ConstructedShared(t) ==
  /\ text' = t
  /\ lines' = <<>>
  /\ i' = 0
  /\ boards' = <<>>
  /\ errors' = <<>>
  /\ varCount' = 0
  /\ UNCHANGED <<vars, reg>>

\* constructor(text), for the session of a later call
Constructed(t) ==
  /\ text' = t
  /\ lines' = <<>>
  /\ i' = 0
  /\ vars' = EmptyObject
  /\ boards' = <<>>
  /\ errors' = <<>>
  /\ reg' = EmptyObject
  /\ varCount' = 0

\* function parseDSL(text) { return new DSLParser(text).parse(); }, called
\* after a call has returned; result is what that call returned
parseDSL ==
  /\ pc = "done"
  /\ \E t \in TextsOf(CallPool, MaxCallLines) : Constructed(t)
  /\ pc' = "new"
  /\ UNCHANGED <<result, listed>>

NextCalls == Next \/ parseDSL

\* constructor(text), for the session of the first call
InitCalls ==
  /\ text \in TextsOf(CallPool, MaxCallLines)
  /\ lines = <<>>
  /\ i = 0
  /\ pc = "new"
  /\ vars = EmptyObject
  /\ boards = <<>>
  /\ errors = <<>>
  /\ reg = EmptyObject
  /\ varCount = 0
  /\ result = Null
  /\ listed = NoList

SpecCalls == InitCalls /\ [][NextCalls]_vars_

\* a boardShape that takes a cut of 0 for no cut (|| in place of ??)
CutOrTruthy(b, side, dflt) ==
  IF b.cuts = Null THEN dflt
  ELSE IF b.cuts[1][side] = Null \/ b.cuts[1][side] = Some(0) THEN dflt
  ELSE b.cuts[1][side][1]

\* b.cuts?.side ?? dflt
CutOr(b, side, dflt) ==
  IF b.cuts = Null THEN dflt
  ELSE IF b.cuts[1][side] = Null THEN dflt
  ELSE b.cuts[1][side][1]

\* function boardShape(b): BL, BR, TR, TL
boardShape(b) ==
  <<<<0, 0>>,
    <<CutOr(b, "bottom", b.w), 0>>,
    <<CutOr(b, "top", b.w), CutOr(b, "right", b.h)>>,
    <<0, CutOr(b, "left", b.h)>>>>

\* const faces = [...]
Faces(b) ==
  <<[view |-> "f", area |-> b.w * b.h],
    [view |-> "s", area |-> b.d * b.h],
    [view |-> "t", area |-> b.w * b.d]>>

\* a sort that puts the later of two equal faces first
PrecedesLater(faces, k, j) ==
  \/ faces[k].area > faces[j].area
  \/ faces[k].area = faces[j].area /\ k > j

\* face k stands before face j after faces.sort((a, c) => c.area - a.area):
\* the larger first, and the sort is stable
Precedes(faces, k, j) ==
  \/ faces[k].area > faces[j].area
  \/ faces[k].area = faces[j].area /\ k < j

SortFaces(faces) ==
  [n \in 1..Len(faces) |->
     faces[CHOOSE j \in 1..Len(faces) :
             Cardinality({k \in 1..Len(faces) : Precedes(faces, k, j)}) = n - 1]]

\* return faces[0].view + faces[1].view
TopTwo(faces) == faces[1].view \o faces[2].view

\* function autoDetectViews(b)
autoDetectViews(b) == TopTwo(SortFaces(Faces(b)))

\* boardShape(b), for every board parse has returned
Shapes ==
  /\ pc = "done"
  /\ listed.shapes = Null
  /\ listed' = [listed EXCEPT
                  !.shapes = Some([k \in 1..Len(boards) |-> boardShape(boards[k])])]
  /\ UNCHANGED <<text, lines, i, pc, vars, boards, errors, reg, varCount, result>>

\* autoDetectViews(b), for every board parse has returned
Views ==
  /\ pc = "done"
  /\ listed.views = Null
  /\ listed' = [listed EXCEPT
                  !.views = Some([k \in 1..Len(boards) |-> autoDetectViews(boards[k])])]
  /\ UNCHANGED <<text, lines, i, pc, vars, boards, errors, reg, varCount, result>>

NextList == Next \/ Shapes \/ Views

SpecList == InitWith(ListPool) /\ [][NextList]_vars_

(***************************************************************************)
(* Properties.  A step of the loop runs the command of the line at i + 1.  *)
(***************************************************************************)
Last(s) == s[Len(s)]

\* the loop is about to run a board command of the right shape
BoardStep ==
  InLoop /\ ~IsSkipped(Line) /\ ~IsVar(Line) /\ IsBoard(Line) /\ MatchBoard(Line).ok

\* the id of that board command, written or generated
LineId ==
  LET m == MatchBoard(Line)
  IN  IF m.id # Null THEN m.id[1] ELSE "b" \o ToString(Len(boards))

\* the first board of the list with the id
FirstBoard(id) == boards[Least({k \in 1..Len(boards) : boards[k].id = id}, 0)]

\* the step appended an error that is no from/to width warning: the line
\* did not produce its board or variable
LineFails ==
  /\ Len(errors') > Len(errors)
  /\ ~Includes(Last(errors'), "pouzita vzdalenost")

\* a session nothing has been parsed in
Fresh ==
  [vars |-> EmptyObject, boards |-> <<>>, errors |-> <<>>, reg |-> EmptyObject,
   varCount |-> 0, uncaught |-> Null]

\* the line, as the only line of a text, produces its variable or its board
ProducesAlone(line) ==
  IF IsVar(line) THEN parseVar(line, 1, Fresh).varCount = 1
  ELSE IsBoard(line) /\ Len(parseBoard(line, 1, Fresh).boards) = 1

\* C1: a board command whose id is already in the registry appends exactly
\* one error, which names the duplicate id, and leaves the board list, the
\* registry and the variable map as they were; no step changes an entry of
\* the registry, and a reference {id.w} after the rejected command resolves
\* to the width of the first board with that id.
C1DuplicateRejected ==
  [][/\ \A id \in DOMAIN reg : id \in DOMAIN reg' /\ reg'[id] = reg[id]
     /\ (BoardStep /\ LineId \in DOMAIN reg) =>
          /\ Len(errors') = Len(errors) + 1
          /\ SubSeq(errors', 1, Len(errors)) = errors
          /\ Includes(Last(errors'), "duplicitni ID [" \o LineId \o "]")
          /\ boards' = boards
          /\ reg' = reg
          /\ vars' = vars
          /\ Eval("{" \o LineId \o ".w}", vars', reg')
               = Ok(FirstBoard(LineId).w)]_vars_

\* C1, its case: the second board[a] was rejected and the board after it
\* took its width from the first
C1Witness ==
  /\ pc = "done"
  /\ Len(boards) = 2
  /\ boards[1].name = "Test"
  /\ boards[2].name = "Ref"
  /\ boards[2].w = boards[1].w
  /\ Len(errors) = 1
  /\ Includes(errors[1], "duplicitni ID [a]")

\* C2: an indented line after a board command is parsed as part of that
\* command: the board of 'board[a] 100 x 200 x 50 "Test"' followed by
\* '  at 10, 20, 30' is at 10, 20, 30 and there is no error.
C2ContinuationJoined ==
  (pc = "done" /\ text = "board[a] 100 x 200 x 50 \"Test\"\n  at 10, 20, 30") =>
    /\ Len(boards) = 1
    /\ boards[1].x = Some(10000)
    /\ boards[1].y = Some(20000)
    /\ boards[1].z = Some(30000)
    /\ errors = <<>>

\* C3: a line that fails changes only the error list: the board list, the
\* registry, the variable map and varCount are what they were before it.
C3FailureFrame ==
  [][LineFails =>
       /\ boards' = boards
       /\ reg' = reg
       /\ vars' = vars
       /\ varCount' = varCount]_vars_

\* C3, its case: the third line failed after a variable and a board
C3Witness ==
  /\ i = 3
  /\ Len(errors) = 1
  /\ StartsWith(errors[1], "Radek 3")
  /\ Len(boards) = 1
  /\ DOMAIN reg = {"a"}
  /\ DOMAIN vars = {"A"}
  /\ varCount = 1

\* C4: parse() ends, without an exception leaving it, and returns boards,
\* errors and varCount together; every iteration of its loop runs the next
\* line and only it; and a line that produces its board or variable as the
\* only line of a text produces it after any lines, failing ones included,
\* unless a board of the list already has its id.
C4Terminates ==
  /\ [](pc # "thrown")
  /\ <>(pc = "done")
  /\ [](pc = "done" =>
          result = Some([boards |-> boards, errors |-> errors,
                         varCount |-> varCount]))
  /\ [][/\ InLoop => i' = i + 1 /\ pc' = "loop" /\ lines' = lines
        /\ (InLoop /\ ~IsSkipped(Line) /\ ProducesAlone(Line)
              /\ ~(BoardStep /\ LineId \in DOMAIN reg)) =>
             \/ varCount' = varCount + 1
             \/ Len(boards') = Len(boards) + 1]_vars_

\* C4, its case: two lines failed and the third produced its board
C4Witness ==
  /\ pc = "done"
  /\ result # Null
  /\ Len(errors) = 2
  /\ StartsWith(errors[1], "Radek 1")
  /\ StartsWith(errors[2], "Radek 2")
  /\ Len(boards) = 1

\* C5: a line that fails appends exactly one string to the error list.
C5OneErrorPerFailure ==
  [][LineFails => Len(errors') = Len(errors) + 1]_vars_

\* the command refers to a variable: a $ after the name a definition begins
\* with, or anywhere in a board command
RefersToVariable(line) ==
  IF IsVar(line) THEN Includes(Sub(line, 2, Len(line)), "$")
  ELSE IsBoard(line) /\ Includes(line, "$")

\* C6: a reference to a variable no earlier line assigned fails its line
\* with an unknown-variable error.  A text of one line has no earlier line.
C6UnknownVariable ==
  (pc = "done" /\ Len(lines) = 1 /\ ~IsSkipped(Trim(lines[1]))
     /\ RefersToVariable(Trim(lines[1]))) =>
    /\ boards = <<>>
    /\ varCount = 0
    /\ Len(errors) = 1
    /\ Includes(errors[1], "Neznama promenna $")

\* C7: a reference {id.prop} with no board of that id created by an earlier
\* line fails its line with an unknown-id error.  A text of one line has no
\* earlier line.
C7UnknownId ==
  (pc = "done" /\ Len(lines) = 1 /\ Includes(lines[1], "{")) =>
    /\ boards = <<>>
    /\ Len(errors) = 1
    /\ Includes(errors[1], "Nezname ID [")

\* C8: once a variable has a value, no step changes it.
C8VariableNeverChanges ==
  [][\A n \in DOMAIN vars : n \in DOMAIN vars' /\ vars'[n] = vars[n]]_vars_

\* C9: the ids of the boards of the list are pairwise distinct, and the
\* registry holds exactly one entry per board of the list, under the
\* board's id, and the entry is that board.
C9RegistryMatchesBoards ==
  /\ \A j, k \in 1..Len(boards) : boards[j].id = boards[k].id => j = k
  /\ DOMAIN reg = {boards[k].id : k \in 1..Len(boards)}
  /\ \A k \in 1..Len(boards) : reg[boards[k].id] = boards[k]

\* C9, its case: three boards, one of them with a generated id
C9Witness ==
  /\ pc = "done"
  /\ Len(boards) = 3
  /\ \E k \in 1..3 : boards[k].id = "b" \o ToString(k - 1)

\* C10: a board command without [id] whose line is valid creates a board
\* with the id b<k>, k the number of boards created so far, whatever ids
\* the boards before it have.
C10AutoId ==
  [][(BoardStep /\ MatchBoard(Line).id = Null /\ ProducesAlone(Line)) =>
       /\ Len(boards') = Len(boards) + 1
       /\ Last(boards').id = "b" \o ToString(Len(boards))]_vars_

\* C11: a board created by a command that names no color has the color
\* AUTO_COLORS[n mod 12], n the number of boards created before it (an
\* explicit color counts, a line that creates no board does not); a step
\* that creates no board leaves the list of boards as it was.
C11AutoColor ==
  [][/\ (BoardStep /\ Len(boards') = Len(boards) + 1
           /\ ~Includes(ToLowerCase(Line), "color")) =>
          Last(boards').color = AUTO_COLORS[(Len(boards) % 12) + 1]
     /\ Len(boards') \in {Len(boards), Len(boards) + 1}
     /\ SubSeq(boards', 1, Len(boards)) = boards]_vars_

\* C11, its case: the 13th board has the first color of the palette again
C11Witness ==
  /\ pc = "done"
  /\ Len(boards) = 13
  /\ boards[13].color = AUTO_COLORS[1]
  /\ boards[1].color = AUTO_COLORS[1]
  /\ boards[12].color = AUTO_COLORS[12]

\* C12: the option sections of a board command can be written in any
\* order: the command leaves the boards and the errors that the command
\* with the same sections in any other order leaves.
C12AnyOrder ==
  [][(BoardStep /\ Line \in OptionLines) =>
       \A l \in OptionLines :
         /\ boards' = parseBoard(l, i + 1, Session).boards
         /\ errors' = parseBoard(l, i + 1, Session).errors]_vars_

\* '#' and exactly 3 or exactly 6 hexadecimal digits
IsHexColor(c) ==
  /\ Len(c) \in {4, 7}
  /\ Ch(c, 1) = "#"
  /\ \A k \in 2..Len(c) : Ch(c, k) \in HexSet

\* C13: every board has a color that is '#' and exactly 3 or exactly 6
\* hexadecimal digits: the explicit color when it has one of these two
\* forms, a color of the palette otherwise.
C13HexColor ==
  \A k \in 1..Len(boards) :
    /\ IsHexColor(boards[k].color)
    /\ \/ \E n \in 1..12 : boards[k].color = AUTO_COLORS[n]
       \/ boards[k].name \in {"Three", "Six"}

\* the square of the distance between the two points of a from/to
SquaredDistance(ft) ==
  (ft.x2 - ft.x1) * (ft.x2 - ft.x1) + (ft.y2 - ft.y1) * (ft.y2 - ft.y1)

\* the boards of the list with the name
Named(name) == {k \in 1..Len(boards) : boards[k].name = name}

\* C14: a board placed with from x1,y1 to x2,y2 has x = x1, y = y1, hasPos,
\* fromTo = {x1, y1, x2, y2}, the direction of (x2-x1, y2-y1) as its angle
\* and the distance of the two points, rounded to 3 decimals, as its width,
\* whatever width its command declared; z is 0 unless a z follows the
\* coordinates directly.  Along x the angle is 0, along y it is 90, on the
\* diagonal 45; 1,1 to 4,5 gives the width 5.
C14FromTo ==
  /\ \A k \in 1..Len(boards) :
       boards[k].fromTo # Null =>
         LET b == boards[k]
             ft == b.fromTo[1]
             sq == SquaredDistance(ft)
         IN  /\ b.x = Some(ft.x1)
             /\ b.y = Some(ft.y1)
             /\ b.z # Null
             /\ b.hasPos
             /\ b.w * b.w - b.w < sq /\ sq <= b.w * b.w + b.w
             /\ b.angle.dy * (ft.x2 - ft.x1) = b.angle.dx * (ft.y2 - ft.y1)
             /\ b.angle.dy * (ft.y2 - ft.y1) >= 0
             /\ b.angle.dx * (ft.x2 - ft.x1) >= 0
  /\ \A k \in Named("Flat") :
       /\ boards[k].fromTo = Some([x1 |-> 0, y1 |-> 0, x2 |-> 10000, y2 |-> 0])
       /\ AngleDegrees(boards[k].angle) = FInt(0)
       /\ boards[k].w = 10000 /\ boards[k].z = Some(0)
  /\ \A k \in Named("Up") :
       /\ AngleDegrees(boards[k].angle) = FInt(90)
       /\ boards[k].w = 10000 /\ boards[k].z = Some(0)
  /\ \A k \in Named("Skew") :
       /\ boards[k].x = Some(1000) /\ boards[k].y = Some(1000)
       /\ boards[k].w = 5000 /\ boards[k].z = Some(7000)
  /\ \A k \in Named("Diag") :
       /\ AngleDegrees(boards[k].angle) = FInt(45)
       /\ boards[k].w = 1414 /\ boards[k].z = Some(0)
  /\ \A k \in Named("Back") :
       /\ boards[k].x = Some(2000) /\ boards[k].w = 2000
       /\ boards[k].z = Some(0)

\* C14, its case: the boards on the 3-4-5 triangle, along y and on the
\* diagonal
C14Witness ==
  /\ pc = "done"
  /\ Named("Skew") # {}
  /\ Named("Up") # {}
  /\ Named("Diag") # {}

\* the width the board command of the line declares
DeclaredWidth ==
  Eval(Trim(SplitDims(Trim(MatchBoard(Line).dims), 1)[1]), vars, reg).v

\* the width w0 and the square root of sq differ by more than 1
FartherThanOne(w0, sq) ==
  \/ sq > (w0 + 1000) * (w0 + 1000)
  \/ w0 > 1000 /\ sq < (w0 - 1000) * (w0 - 1000)

\* C15: a from/to board command whose declared width differs from the
\* distance of its two points by more than 1 still creates its board, with
\* the distance as its width, and appends exactly one warning; when the
\* difference is at most 1 the board is created and nothing is appended.
C15WidthWarning ==
  [][(BoardStep /\ Includes(Line, " from ")) =>
       /\ (Includes(Line, "$") => Has(vars, "A")) =>
            Len(boards') = Len(boards) + 1
       /\ Len(boards') = Len(boards) + 1 =>
            LET b == Last(boards')
                sq == SquaredDistance(b.fromTo[1])
            IN  /\ b.fromTo # Null
                /\ b.w * b.w - b.w < sq /\ sq <= b.w * b.w + b.w
                /\ IF FartherThanOne(DeclaredWidth, sq)
                     THEN /\ Len(errors') = Len(errors) + 1
                          /\ SubSeq(errors', 1, Len(errors)) = errors
                          /\ Includes(Last(errors'), "pouzita vzdalenost")
                          /\ Includes(Last(errors'), "(" \o b.name \o ")")
                     ELSE errors' = errors]_vars_

\* C15, its case: a board with the width of its distance behind a warning,
\* and a board whose declared width was one short without any
C15Witness ==
  /\ pc = "done"
  /\ Len(boards) = 2
  /\ boards[1].name = "Skew" /\ boards[1].w = 5000
  /\ boards[2].name = "Up" /\ boards[2].w = 10000
  /\ Len(errors) = 1
  /\ Includes(errors[1], "pouzita vzdalenost")

\* C16: the cuts of a board are null, as they are without the keyword, or
\* an object of four sides of which at least one is a number; a board never
\* carries four null sides.
C16CutsPresent ==
  \A k \in 1..Len(boards) :
    /\ boards[k].name = "Plain" => boards[k].cuts = Null
    /\ boards[k].cuts # Null =>
         \E side \in {"left", "right", "top", "bottom"} :
           boards[k].cuts[1][side] # Null

\* where the keyword starts in the line, 0 without it
KeywordStart(line, kw) ==
  Least({k \in 1..Len(line) : Sub(line, k, k + Len(kw) - 1) = kw}, 0)

\* the argument of the view keyword of a line: what stands between it and
\* the color keyword or the end of the line
ViewArgument(line) ==
  LET from == KeywordStart(line, " view") + 5
      tail == Sub(line, from, Len(line))
      stop == KeywordStart(tail, " color")
  IN  Trim(IF stop = 0 THEN tail ELSE Sub(tail, 1, stop))

\* the characters of s at their first occurrence, in the order of s
RECURSIVE FirstOccurrences(_, _)
FirstOccurrences(s, k) ==
  IF k > Len(s) THEN ""
  ELSE IF \E j \in 1..k - 1 : Ch(s, j) = Ch(s, k) THEN FirstOccurrences(s, k + 1)
  ELSE Ch(s, k) \o FirstOccurrences(s, k + 1)

\* a non-empty string over f, s and t in which no character repeats
IsView(v) ==
  /\ v # ""
  /\ \A k \in 1..Len(v) : Ch(v, k) \in {"f", "s", "t"}
  /\ \A j, k \in 1..Len(v) : Ch(v, j) = Ch(v, k) => j = k

Classified(line, ln, st) ==
  IF IsSkipped(line) THEN st
  ELSE IF IsVar(line) THEN parseVar(line, ln, st)
  ELSE IF IsBoard(line) THEN parseBoard(line, ln, st)
  ELSE [st EXCEPT !.errors = Append(@, Radek(ln) \o ": neznamy prikaz")]

\* the session after the lines from the k-th on
RECURSIVE ParsedFrom(_, _, _)
ParsedFrom(ls, k, st) ==
  IF k > Len(ls) \/ st.uncaught # Null THEN st
  ELSE ParsedFrom(ls, k + 1, Classified(Trim(ls[k]), k, st))

\* what the text returns when nothing else was ever parsed
ParsedAlone(t) ==
  LET st == ParsedFrom(SplitLines(t), 1, Fresh)
  IN  Some([boards |-> st.boards, errors |-> st.errors, varCount |-> st.varCount])

\* C18: parseDSL is deterministic and its sessions are isolated: a call
\* returns the boards, the errors and the varCount its text returns when
\* parsed alone, whatever texts were parsed before it, so two calls with the
\* same text return the same; a variable or a board id of an earlier call
\* does not resolve in a later one.
C18Isolated ==
  [][/\ Return => result' = ParsedAlone(text)
     /\ (pc = "loop" /\ i = 0 /\ Line \in {CallPool[4], CallPool[5]}) =>
          /\ boards' = <<>>
          /\ varCount' = 0
          /\ Len(errors') = 1
          /\ vars' = EmptyObject
          /\ reg' = EmptyObject]_vars_

\* C18, its case: a call defined $A and the board a and returned them; the
\* next call has used both and found neither
C18Witness ==
  /\ result # Null
  /\ result[1].varCount = 1
  /\ Len(result[1].boards) = 1
  /\ result[1].boards[1].id = "a"
  /\ pc = "loop"
  /\ i = 2
  /\ lines = <<CallPool[5], CallPool[4]>>
  /\ boards = <<>>
  /\ varCount = 0
  /\ Len(errors) = 2

\* C18, its case: the text that returned a board returns it again
C18Again ==
  /\ result = ParsedAlone(text)
  /\ pc = "loop"
  /\ i = 2
  /\ Len(boards) = 1

\* the line the loop is about to run, as the text has it and trimmed
Raw == lines[i + 1]

Trimmed == Trim(Raw)

\* the step appended one error, which is not the unknown-command error
OwnError ==
  /\ Len(errors') = Len(errors) + 1
  /\ SubSeq(errors', 1, Len(errors)) = errors
  /\ ~Includes(Last(errors'), "neznamy prikaz")

C20NotJoined ==
  [][(/\ pc = "loop" /\ i >= 1 /\ i < Len(lines)
      /\ IsSpace(Ch(Raw, 1))
      /\ LET before == Trim(lines[i])
         IN  \/ before = ""
             \/ StartsWith(before, "#")
             \/ StartsWith(before, "//")
             \/ StartsWith(before, "$")) =>
       /\ Trimmed = "at 10, 20, 30" =>
            /\ errors' = Append(errors, "Radek " \o ToString(i + 1)
                                         \o ": neznamy prikaz")
            /\ boards' = boards
       /\ (StartsWith(Trimmed, "Board") /\ \A k \in 1..Len(boards) : boards[k].id # "a") =>
            /\ errors' = errors
            /\ Len(boards') = Len(boards) + 1
            /\ Last(boards').name = "Cap"
            /\ ~Last(boards').hasPos
       /\ StartsWith(Trimmed, "$") =>
            /\ varCount' = varCount + 1
            /\ errors' = errors]_vars_

\* C20, its case: the board, a comment, and the position that follows the
\* comment: the board has no position and line 3 is an unknown command
C20Witness ==
  /\ pc = "done"
  /\ lines = <<ClassPool[5], ClassPool[2], ClassPool[6]>>
  /\ Len(boards) = 1
  /\ ~boards[1].hasPos
  /\ errors = <<"Radek 3: neznamy prikaz">>

\* C21: for a board with angle 0, null coordinates counted as 0, prop
\* returns right = x+w, top = y+h, back = z+d, cx = x+w/2, cy = y+h/2,
\* x2 = x+w and y2 = y; a name that is no property fails with the
\* unknown-property error.
C21Properties ==
  [][(pc = "loop" /\ i < Len(lines) /\ "a" \in DOMAIN reg) =>
       LET a == reg["a"]
           x == IF a.x = Null THEN 0 ELSE a.x[1]
           y == IF a.y = Null THEN 0 ELSE a.y[1]
           z == IF a.z = Null THEN 0 ELSE a.z[1]
       IN  /\ a.angle = ZeroAngle
           /\ Trimmed = PropPool[5] =>
                /\ Len(boards') = Len(boards) + 1
                /\ errors' = errors
                /\ Last(boards').w = x + a.w
                /\ Last(boards').h = y + a.h
                /\ Last(boards').d = z + a.d
                /\ 2 * Last(boards').x[1] = 2 * x + a.w
                /\ 2 * Last(boards').y[1] = 2 * y + a.h
                /\ Last(boards').z[1] = y
           /\ Trimmed = PropPool[6] =>
                /\ vars'["V"] = x + a.w
                /\ errors' = errors
           /\ Trimmed = PropPool[7] =>
                /\ errors' = Append(errors, "Radek " \o ToString(i + 1)
                                             \o " ($V): Neznama vlastnost .foo na [a]")
                /\ UNCHANGED <<vars, varCount, boards>>]_vars_

\* C21, its case: the properties of a board without a position, and of one
\* with a position, read by the two lines after it
C21Witness ==
  /\ pc = "done"
  /\ Len(boards) = 2
  /\ \/ /\ boards[1].name = "Bare"
        /\ boards[2].w = 5000 /\ boards[2].h = 7000 /\ boards[2].d = 9000
        /\ boards[2].x = Some(2500) /\ boards[2].y = Some(3500)
        /\ boards[2].z = Some(0)
     \/ /\ boards[1].name = "Own"
        /\ boards[2].w = 5000 /\ boards[2].h = 8000 /\ boards[2].d = 11000
        /\ boards[2].x = Some(3000) /\ boards[2].y = Some(5000)
        /\ boards[2].z = Some(2000)
        /\ "V" \in DOMAIN vars /\ vars["V"] = 5000

\* the value, in thousandths, of the strings of MathPool that are
\* expressions over numbers, + - * / and parentheses and have a finite
\* value; Null for the others
Arithmetic(e) ==
  CASE e = "1/3" -> Some(333)
    [] e = "2+3*4" -> Some(14000)
    [] e = "(2+3)*4" -> Some(20000)
    [] e = "7/2" -> Some(3500)
    [] OTHER -> Null

\* the step appended one error and defined nothing
MathFailed ==
  /\ Len(errors') = Len(errors) + 1
  /\ SubSeq(errors', 1, Len(errors)) = errors
  /\ UNCHANGED <<vars, varCount, boards>>

\* C22: math fails for a string with a character other than a digit, white
\* space, + - * / ( ) and '.', and fails when the value is not finite;
\* otherwise it returns the value of the arithmetic expression, under the
\* standard precedence, rounded to 3 decimals (1/3 gives 0.333, 1/0 fails),
\* and a string that is no such expression has no value to return.
C22Math ==
  [][(pc = "loop" /\ i < Len(lines)) =>
       /\ StartsWith(Trimmed, "$A = ") =>
            LET e == Sub(Trimmed, 6, Len(Trimmed))
            IN  IF \E k \in 1..Len(e) :
                     Ch(e, k) \notin {"0", "1", "2", "3", "4", "5", "6", "7", "8", "9",
                                      " ", "\t", "+", "-", "*", "/", "(", ")", "."}
                  THEN MathFailed /\ Includes(Last(errors'), "Neplatny vyraz")
                ELSE IF Arithmetic(e) = Null THEN MathFailed
                ELSE /\ vars' = [n \in DOMAIN vars \cup {"A"} |->
                                   IF n = "A" THEN Arithmetic(e)[1] ELSE vars[n]]
                     /\ varCount' = varCount + 1
                     /\ errors' = errors
       /\ StartsWith(Trimmed, "board") =>
            /\ Len(boards') = Len(boards) + 1
            /\ errors' = errors
            /\ Last(boards').w = Arithmetic("2+3*4")[1]
            /\ Last(boards').h = Arithmetic("(2+3)*4")[1]
            /\ Last(boards').d = Arithmetic("7/2")[1]]_vars_

\* the value of a side of the cuts of a board, null without cuts
CutSide(b, side) == IF b.cuts = Null THEN Null ELSE b.cuts[1][side]

\* a cut value in place of the default exactly when it is a number
Replacing(cut, dflt) == IF cut = Null THEN dflt ELSE cut[1]

\* C23: boardShape returns the points (0,0), (bw,0), (tw,rh), (0,lh), where
\* lh and rh are the left and right cuts or h, and bw and tw the bottom and
\* top cuts or w, a cut replacing the default exactly when it is not null;
\* without cuts, and with four null sides, the points are the rectangle
\* (0,0), (w,0), (w,h), (0,h).
C23BoardShape ==
  listed.shapes # Null =>
    /\ Len(listed.shapes[1]) = Len(boards)
    /\ \A k \in 1..Len(boards) :
         LET b == boards[k]
             pts == listed.shapes[1][k]
         IN  /\ pts = <<<<0, 0>>,
                        <<Replacing(CutSide(b, "bottom"), b.w), 0>>,
                        <<Replacing(CutSide(b, "top"), b.w),
                          Replacing(CutSide(b, "right"), b.h)>>,
                        <<0, Replacing(CutSide(b, "left"), b.h)>>>>
             /\ b.name \in {"Cube", "Beam"} =>
                  pts = <<<<0, 0>>, <<b.w, 0>>, <<b.w, b.h>>, <<0, b.h>>>>
             /\ b.name = "All" =>
                  pts = <<<<0, 0>>, <<1500, 0>>, <<1000, 2000>>, <<0, 3000>>>>
             /\ b.name = "Panel" =>
                  pts = <<<<0, 0>>, <<8000, 0>>, <<0, 180>>, <<0, 180>>>>

\* C23, its case: the outlines of a board with four cuts, of one with a cut
\* of 0 and of one without cuts
C23Witness ==
  /\ listed.shapes # Null
  /\ Len(boards) = 3
  /\ boards[1].name = "All" /\ boards[1].cuts # Null
  /\ boards[2].name = "Panel"
  /\ boards[3].name = "Beam" /\ boards[3].cuts = Null

\* C24: autoDetectViews returns two distinct letters, those of the faces
\* with the largest and the second largest area among f = w*h, s = d*h and
\* t = w*d, the larger first; between equal areas the order f, s, t decides
\* (a cube gives fs, a panel tf, a beam st).
C24AutoDetect ==
  listed.views # Null =>
    /\ Len(listed.views[1]) = Len(boards)
    /\ \A k \in 1..Len(boards) :
         LET b == boards[k]
             v == listed.views[1][k]
             area == [c \in {"f", "s", "t"} |->
                        CASE c = "f" -> b.w * b.h
                          [] c = "s" -> b.d * b.h
                          [] c = "t" -> b.w * b.d]
             rank == [c \in {"f", "s", "t"} |->
                        CASE c = "f" -> 1 [] c = "s" -> 2 [] c = "t" -> 3]
             other == CHOOSE c \in {"f", "s", "t"} : c \notin {Ch(v, 1), Ch(v, 2)}
         IN  /\ Len(v) = 2
             /\ Ch(v, 1) \in {"f", "s", "t"} /\ Ch(v, 2) \in {"f", "s", "t"}
             /\ Ch(v, 1) # Ch(v, 2)
             /\ area[Ch(v, 1)] >= area[Ch(v, 2)]
             /\ area[Ch(v, 2)] >= area[other]
             /\ area[Ch(v, 1)] = area[Ch(v, 2)] => rank[Ch(v, 1)] < rank[Ch(v, 2)]
             /\ area[Ch(v, 2)] = area[other] => rank[Ch(v, 2)] < rank[other]
             /\ b.name = "Cube" => v = "fs"
             /\ b.name = "Panel" => v = "tf"
             /\ b.name = "Beam" => v = "st"
             /\ b.name = "All" => v = "ft"

\* C24, its case: the views of a cube, a panel and a beam
C24Witness ==
  /\ listed.views # Null
  /\ Len(boards) = 3
  /\ boards[1].name = "Cube" /\ listed.views[1][1] = "fs"
  /\ boards[2].name = "Panel" /\ listed.views[1][2] = "tf"
  /\ boards[3].name = "Beam" /\ listed.views[1][3] = "st"

\* s is the beginning of t
IsPrefix(s, t) == Len(s) <= Len(t) /\ SubSeq(t, 1, Len(s)) = s

\* C25: the board list is append-only and in the order of the lines: a
\* board appended at index k stays there with all its fields until parse
\* returns, whatever later lines do, a line that reuses or references its
\* id included; the error list is append-only too.
C25AppendOnly ==
  [][/\ IsPrefix(boards, boards')
     /\ IsPrefix(errors, errors')
     /\ i' >= i
     /\ Len(boards') > Len(boards) => i' = i + 1 /\ Len(boards') = Len(boards) + 1]_vars_

\* C25, its case: a board, a line that reuses its id and a line that
\* references it: the board is still the first, as it was made
C25Witness ==
  /\ pc = "done"
  /\ lines = <<Pool[3], Pool[5], Pool[6]>>
  /\ Len(boards) = 2
  /\ boards[1] = parseBoard(Pool[3], 1, Fresh).boards[1]
  /\ boards[2].name = "Ref"
  /\ Len(errors) = 1

\* C26: three valid expressions separated by x are split into exactly those
\* three, also when an operand is a $VAR or an {ID.PROP} whose name holds an
\* x before a digit ({a.x2}, $x1): the command yields its board and no
\* error.
C26DimensionsSplit ==
  [][(/\ pc = "loop" /\ i < Len(lines)
      /\ \/ Trimmed = DimPool[6] /\ "a" \in DOMAIN reg
         \/ Trimmed = DimPool[7] /\ "x1" \in DOMAIN vars
         \/ Trimmed = DimPool[8] /\ "a" \in DOMAIN reg /\ "T" \in DOMAIN vars) =>
       /\ Len(boards') = Len(boards) + 1
       /\ errors' = errors
       /\ Last(boards').w = (CASE Trimmed = DimPool[6] -> 5000
                               [] Trimmed = DimPool[7] -> vars["x1"]
                               [] Trimmed = DimPool[8] -> vars["T"])]_vars_

\* C27: substituting a variable keeps its value inside arithmetic: with $V
\* defined as v, positive, zero or negative, 10-$V gives 10 - v, 10+$V gives
\* 10 + v and 10*$V gives 10 * v, with and without spaces around the
\* operator.
C27SubstitutionKeepsValue ==
  [][(pc = "loop" /\ i < Len(lines) /\ "V" \in DOMAIN vars) =>
       /\ Trimmed \in {SubstPool[6], SubstPool[7]} =>
            /\ errors' = errors
            /\ varCount' = varCount + 1
            /\ vars'["R"] = 10000 - vars["V"]
       /\ Trimmed = SubstPool[8] =>
            /\ errors' = errors
            /\ Len(boards') = Len(boards) + 1
            /\ Last(boards').w = 10000 + vars["V"]
            /\ Last(boards').h = 10 * vars["V"] + 60000
            /\ Last(boards').d = 10000 - vars["V"]]_vars_

\* the bracket depth after the first p characters of s
RECURSIVE DepthAfter(_, _)
DepthAfter(s, p) ==
  IF p = 0 THEN 0
  ELSE DepthAfter(s, p - 1)
       + (CASE Ch(s, p) \in {"{", "("} -> 1
            [] Ch(s, p) \in {"}", ")"} -> -1
            [] OTHER -> 0)

\* the 0-based indexes of s where kw stands as a whole word, in any letter
\* case, at bracket depth 0
Occurrences(s, kw) ==
  {p \in 0..Len(s) - Len(kw) :
     /\ ToLowerCase(Sub(s, p + 1, p + Len(kw))) = kw
     /\ p = 0 \/ Ch(s, p) \notin WordSet
     /\ p + Len(kw) = Len(s) \/ Ch(s, p + Len(kw) + 1) \notin WordSet
     /\ DepthAfter(s, p) = 0}

\* the smallest number of a set of numbers
Smallest(S) == CHOOSE p \in S : \A q \in S : p <= q

\* C28: findKeyword returns the index of the first whole-word occurrence of
\* the keyword, in any letter case, at bracket depth 0, or -1, so a keyword
\* inside {id.prop} or inside parentheses starts no section;
\* findNextKeyword returns the smallest such index over its list, with the
\* keyword found there, or -1 and null.
C28FindKeyword ==
  [][BoardStep =>
       LET rest == Trim(MatchBoard(Line).rest)
           list == <<"cut", "view", "color">>
           found == UNION {Occurrences(rest, list[n]) : n \in 1..3}
       IN  /\ \A kw \in {"at", "from", "cut", "view", "color"} :
                findKeyword(rest, kw) =
                  (IF Occurrences(rest, kw) = {} THEN -1
                   ELSE Smallest(Occurrences(rest, kw)))
           /\ findNextKeyword(rest, list) =
                (IF found = {} THEN [pos |-> -1, keyword |-> Null]
                 ELSE [pos |-> Smallest(found),
                       keyword |-> Some(CHOOSE kw \in {"cut", "view", "color"} :
                                          Smallest(found) \in Occurrences(rest, kw))])
           /\ (Line = KeyPool[5] /\ "cut" \in DOMAIN reg) =>
                /\ Len(boards') = Len(boards) + 1
                /\ errors' = errors
                /\ Last(boards').x = Some(1000)
                /\ Last(boards').y = Some(2000)
                /\ Last(boards').cuts = Null
           /\ Line = KeyPool[6] =>
                /\ Len(boards') = Len(boards) + 1
                /\ errors' = errors
                /\ Last(boards').z = Some(3000)
                /\ Last(boards').view = Some("f")
           /\ Line = KeyPool[7] =>
                /\ Len(boards') = Len(boards) + 1
                /\ errors' = errors
                /\ ~Last(boards').hasPos
                /\ Last(boards').cuts = Null]_vars_

\* C28, its case: the board with the id cut, the board that references it
\* after AT, and the board whose color stands before its view
C28Witness ==
  /\ pc = "done"
  /\ lines = <<KeyPool[4], KeyPool[5], KeyPool[6]>>
  /\ Len(boards) = 3
  /\ errors = <<>>
  /\ boards[2].x = Some(1000) /\ boards[2].cuts = Null
  /\ boards[3].view = Some("f")

\* the position invariants of a board
PositionInvariant(b) ==
  /\ ~b.hasPos <=> (b.x = Null /\ b.y = Null /\ b.z = Null)
  /\ b.hasPos <=> (b.x # Null /\ b.y # Null /\ b.z # Null)
  /\ b.fromTo # Null <=> b.name = "Line"
  /\ b.angle # ZeroAngle => b.fromTo # Null
  /\ b.name = "At" =>
       /\ b.angle = ZeroAngle /\ b.fromTo = Null /\ b.hasPos
       /\ b.x = Some(1000) /\ b.y = Some(2000) /\ b.z = Some(3000)
  /\ b.name = "None" => ~b.hasPos /\ b.angle = ZeroAngle /\ b.fromTo = Null
  /\ b.name = "Line" => b.hasPos /\ b.angle # ZeroAngle

\* C29: hasPos is false exactly when x, y and z are all null and true
\* exactly when all three are numbers; fromTo is not null exactly when the
\* board was placed with from/to; the angle is not 0 only with a fromTo; a
\* board placed with at has the angle 0 and no fromTo; at with another count
\* of coordinates than 3, and from or to with another count than 2, give an
\* error and no board.
C29Position ==
  [][/\ \A k \in 1..Len(boards') : PositionInvariant(boards'[k])
     /\ (InLoop /\ Raw \in {PosPool[6], PosPool[8], PosPool[9]}) =>
          /\ boards' = boards
          /\ reg' = reg
          /\ Len(errors') = Len(errors) + 1
          /\ Includes(Last(errors'), "hodnoty")
     /\ (InLoop /\ Raw \in {PosPool[4], PosPool[5], PosPool[7]}) =>
          /\ Len(boards') = Len(boards) + 1
          /\ errors' = errors]_vars_

\* C29, its case: a board without a position, one placed with at and one
\* placed with from/to
C29Witness ==
  /\ pc = "done"
  /\ lines = <<PosPool[4], PosPool[5], PosPool[7]>>
  /\ Len(boards) = 3
  /\ ~boards[1].hasPos
  /\ boards[2].hasPos /\ boards[2].fromTo = Null
  /\ boards[3].fromTo # Null /\ boards[3].angle = [dy |-> 4, dx |-> 3]

\* line k left an error
Failed(k, errs) ==
  \E e \in 1..Len(errs) :
    StartsWith(errs[e], Radek(k) \o ":") \/ StartsWith(errs[e], Radek(k) \o " ")

\* the variable lines among the first n lines that left no error
Succeeded(n, errs) ==
  {k \in 1..n : StartsWith(Trim(lines[k]), "$") /\ ~Failed(k, errs)}

\* C30: at every point of a parse varCount is the number of variable lines
\* processed so far that evaluated successfully; a variable line that fails,
\* by its syntax or by its expression, leaves varCount and the variables
\* unchanged; a board line leaves varCount unchanged.
C30VarCount ==
  [][/\ varCount' = Cardinality(Succeeded(i', errors'))
     /\ (InLoop /\ Raw \in {CountPool[3], CountPool[4]}) =>
          (IF Raw = CountPool[4] /\ "A" \notin DOMAIN vars
             THEN varCount' = varCount /\ vars' = vars /\ OwnError
             ELSE /\ varCount' = varCount + 1
                  /\ errors' = errors
                  /\ vars' = Put(vars, IF Raw = CountPool[3] THEN "A" ELSE "B",
                                 IF Raw = CountPool[3] THEN 2000 ELSE 3000))
     /\ (InLoop /\ Raw \in {CountPool[5], CountPool[6], CountPool[7]}) =>
          varCount' = varCount /\ vars' = vars /\ OwnError
     /\ (InLoop /\ Raw = CountPool[8]) => varCount' = varCount /\ vars' = vars]_vars_

\* C30, its case: a parse where one variable line succeeded, one failed and
\* a board followed
C30Witness ==
  /\ pc = "done"
  /\ \E f \in {CountPool[5], CountPool[6], CountPool[7]} :
       lines = <<CountPool[3], f, CountPool[8]>>
  /\ varCount = 1
  /\ Len(errors) = 1
  /\ Len(boards) = 1
  /\ vars["A"] = 2000

====
